---- MODULE Spec2Model ----
(***************************************************************************)
(* Model of the SM90 int8 QK / fp8 PV fused attention kernel               *)
(* (qk_int8_sv_f8_attn_kernel) and of its host launch wrappers.            *)
(*                                                                         *)
(* The module holds three views of the same program:                       *)
(*   Spec      host call + grid of thread blocks: every global-memory      *)
(*             access of a block (scale reads, tile loads, O / Lse stores) *)
(*   SpecRow   the arithmetic one query row goes through, tile by tile     *)
(*   SpecPipe  the barrier / transfer / matmul pipeline of one block       *)
(***************************************************************************)
EXTENDS Integers, Sequences, FiniteSets, TLC

(***************************************************************************)
(* Program constants (template arguments fixed by the launch wrapper).     *)
(***************************************************************************)
CTA_Q == 64
CTA_K == 128
NUM_THREADS == 128
WARP_SIZE == 32

(***************************************************************************)
(* Bounds of the model.                                                    *)
(***************************************************************************)
MaxBatch == 2
MaxHeads == 4
MaxQoLen == 65
MaxKvLen == 258
MaxBlocks == 2

HeadDims == {64, 128}

div_ceil(a, b) == (a + b - 1) \div b

Min(a, b) == IF a < b THEN a ELSE b

(***************************************************************************)
(* Thread coordinates.                                                     *)
(***************************************************************************)
Threads == 0 .. (NUM_THREADS - 1)

warp_idx(tid) == (tid % 128) \div WARP_SIZE

lane_id(tid) == tid % WARP_SIZE

num_tiles_q == CTA_Q \div 64

num_tiles_k == CTA_K \div 16

num_tiles_v(head_dim) == head_dim \div 16

VARIABLES
    call,       \* arguments of the host call
    hpc,        \* host wrapper: "called", "launched", "invalid_argument", "abort"
    lse_shape,  \* shape of the tensor the wrapper returns
    kargs,      \* arguments and template arguments of the launched kernel
    ran,        \* blocks of the grid that have executed
    O,          \* per block: offsets (elements from output.data_ptr()) stored to
    Odup,       \* offsets stored to more than once
    Lse,        \* per block: <<offset, query row of the register stored>>
    LseDup,     \* Lse offsets stored to more than once
    loads,      \* per block: <<tensor, tile, s0, s1, s2, s3>> of every load_async_4D
    sreads      \* per block: <<array, tile, index>> of every scale read

gvars == <<call, hpc, lse_shape, kargs, ran, O, Odup, Lse, LseDup, loads, sreads>>

VARIABLES
    rin,        \* the data of one query row and of its keys and values
    rpc,        \* "loop", "norm", "done" ("off" outside SpecRow)
    iter,       \* the loop variable iter
    m,          \* m[fq][kk] of the four lanes of the row
    d,          \* d[fq][kk] of the four lanes of the row
    RO,         \* RO[fq][fv][k] of one output column of the row
    soft,       \* key positions whose score entered update_mdo as computed
    clamped,    \* key positions whose score was replaced by the sentinel
    weighted,   \* key positions whose narrowed probability was not zero
    lossy,      \* some probability was changed by RS_32_to_8
    out         \* what the row stores to O and Lse

rvars == <<rin, rpc, iter, m, d, RO, soft, clamped, weighted, lossy, out>>

VARIABLES
    pin,        \* number of key tiles and head_dim of the block
    pc,         \* per warp: where it is in the kernel
    it,         \* per warp: the loop variable iter
    ph,         \* per warp: the phase bit p
    bar,        \* barrier_Q, barrier_K, barrier_V
    flight,     \* transfers issued and not yet completed
    committed,  \* per warp: matmul groups committed
    mmdone,     \* matmul groups the warp group has completed
    arrived,    \* warps that reached __syncthreads
    passed,     \* per warp: <<barrier, phase bit>> of the waits that returned
    wrote,      \* warps that stored their rows of O and Lse
    broken,     \* <<barrier, phase>> of transfers that failed
    landed      \* <<barrier, tile>> of transfers whose bytes all arrived

pvars == <<pin, pc, it, ph, bar, flight, committed, mmdone, arrived, passed, wrote,
           broken, landed>>

VARIABLES
    hin,        \* the tensors and int arguments of a call of an entry point
    hout        \* what the call did: outcome, effects in order, what it handed on

hvars == <<hin, hout>>

VARIABLES
    xin,        \* one thread of one block: its tid, the block and the kernel arguments
    xpc,        \* the statements of the kernel the thread has executed so far
    xp,         \* the phase bit p
    xreg,       \* what the register tiles RS and RO_temp hold
    xopen,      \* a warpgroup_arrive has no commit after it yet
    xgroups,    \* committed matmul groups not yet waited for
    xlog        \* the statements executed, each with what it found

xvars == <<xin, xpc, xp, xreg, xopen, xgroups, xlog>>

VARIABLES
    ain,        \* an accepted call with the geometry of its output buffer
    apc,        \* "host" before the launch, "kernel" after it
    aargs,      \* the strides and lengths as the kernel receives them
    awr         \* the store followed: where it should land and where it lands

avars == <<ain, apc, aargs, awr>>

vars == <<gvars, rvars, pvars, hvars, xvars, avars>>

\* The variables of a view stay parked under the other specifications.
GridOff ==
    /\ call = <<>> /\ hpc = "off" /\ lse_shape = <<>> /\ kargs = <<>> /\ ran = {}
    /\ O = <<>> /\ Odup = {} /\ Lse = <<>> /\ LseDup = {} /\ loads = <<>>
    /\ sreads = <<>>

RowOff ==
    /\ rin = <<>> /\ rpc = "off" /\ iter = 0 /\ m = <<>> /\ d = <<>> /\ RO = 0
    /\ soft = {} /\ clamped = {} /\ weighted = {} /\ lossy = FALSE /\ out = <<>>

HostOff == hin = <<>> /\ hout = <<>>

ThreadOff ==
    /\ xin = <<>> /\ xpc = 0 /\ xp = 0 /\ xreg = <<>> /\ xopen = FALSE
    /\ xgroups = 0 /\ xlog = <<>>

AddrOff == ain = <<>> /\ apc = "off" /\ aargs = <<>> /\ awr = <<>>

PipeOff ==
    /\ pin = <<>> /\ pc = <<>> /\ it = <<>> /\ ph = <<>> /\ bar = <<>> /\ flight = {}
    /\ committed = <<>> /\ mmdone = 0 /\ arrived = {} /\ passed = <<>> /\ wrote = {}
    /\ broken = {} /\ landed = {}

(***************************************************************************)
(* Host wrapper: qk_int8_sv_f8_accum_f32_attn_inst_buf and                  *)
(* qk_int8_sv_f8_accum_f32_fuse_v_scale_attn_inst_buf.                      *)
(* A call c is a record:                                                   *)
(*   layout, causal, return_lse  the int arguments                         *)
(*   gran      qk_quant_gran as the QuantGranularity it names              *)
(*   fused     TRUE for the fuse_v_scale entry point                       *)
(*   batch, hq, hkv, qo_len, kv_len, head_dim   extents of query / key     *)
(*   v_len     value.size(3)                                               *)
(*   qs_len, ks_len   query_scale.size(2), key_scale.size(2)               *)
(*   vs_len    value_scale.size(2) (fused entry point only)                *)
(*   o_rows    sequence extent of the buffer output is a view of           *)
(***************************************************************************)
num_kv_groups(c) == c.hq \div c.hkv

\* Sizes of the buffer behind output, in the axis order tensor_layout names.
OutSizes(c) ==
    IF c.layout = 0 THEN <<c.batch, c.o_rows, c.hq, c.head_dim>>
    ELSE <<c.batch, c.hq, c.o_rows, c.head_dim>>

\* output.stride(ax), ax = 0..3, of a last-dim-contiguous row-major view.
OutStride(c, ax) ==
    LET sz == OutSizes(c) IN
    CASE ax = 0 -> sz[2] * sz[3] * sz[4]
      [] ax = 1 -> sz[3] * sz[4]
      [] ax = 2 -> sz[4]
      [] OTHER -> 1

stride_bz_o(c) == OutStride(c, 0)

stride_seq_o(c) == IF c.layout = 0 THEN OutStride(c, 1) ELSE OutStride(c, 2)

stride_h_o(c) == IF c.layout = 0 THEN OutStride(c, 2) ELSE OutStride(c, 1)

\* DISPATCH_HEAD_DIM: only 64 and 128 have a specialization.
DispatchHeadDim(c) == c.head_dim \in {64, 128}

\* Variant: a per-block branch compiled beside the two.
CompiledGransAll == {"kPerBlock", "kPerWarp", "kPerThread"}

\* The granularities the wrapper's if constexpr chain compiles for; the
\* static_assert of its last branch refuses every other instantiation.
CompiledGrans == {"kPerWarp", "kPerThread"}

\* DISPATCH_QK_QUANT_GRAN: only per-warp and per-thread have one.
DispatchQkQuantGran(c) == c.gran \in CompiledGrans

\* The third extent CHECK_SHAPE demands of query_scale and of key_scale.
QScaleLen(c) ==
    IF c.gran = "kPerWarp"
    THEN div_ceil(c.qo_len, CTA_Q) * (NUM_THREADS \div 32)
    ELSE div_ceil(c.qo_len, CTA_Q) * (NUM_THREADS \div 32) * 8

\* Variant: one entry per key tile in both granularities.
KScaleLenFlat(c) == div_ceil(c.kv_len, CTA_K)

KScaleLen(c) ==
    IF c.gran = "kPerWarp"
    THEN div_ceil(c.kv_len, CTA_K)
    ELSE div_ceil(c.kv_len, CTA_K) * 4

ScaleShapesOk(c) ==
    /\ c.qs_len = QScaleLen(c)
    /\ c.ks_len = KScaleLen(c)
    /\ c.fused => c.vs_len = c.head_dim

\* Variant: value need only hold kv_len positions.
ValueLongEnough(c) == c.v_len >= c.kv_len

\* assert(value.size(3) >= div_ceil(kv_len, CTA_K) * CTA_K)
ValuePadded(c) == c.v_len >= div_ceil(c.kv_len, CTA_K) * CTA_K

\* create_tensor_map_4D asserts that cuTensorMapEncodeTiled succeeded; the
\* driver refuses a tensor with an extent of 0.
create_tensor_map_4D(d1, d2, d3, d4) == d1 >= 1 /\ d2 >= 1 /\ d3 >= 1 /\ d4 >= 1

TensorMapsOk(c) ==
    /\ create_tensor_map_4D(c.batch, c.hq, c.qo_len, c.head_dim)
    /\ create_tensor_map_4D(c.batch, c.hkv, c.kv_len, c.head_dim)
    /\ create_tensor_map_4D(c.batch, c.hkv, c.head_dim, c.v_len)

\* Outcome of the wrapper, its checks taken in the order of the code.
HostOutcome(c) ==
    IF c.hq % c.hkv # 0 THEN "invalid_argument"
    ELSE IF ~DispatchHeadDim(c) THEN "invalid_argument"
    ELSE IF ~DispatchQkQuantGran(c) THEN "invalid_argument"
    ELSE IF ~ValuePadded(c) THEN "abort"
    ELSE IF ~ScaleShapesOk(c) THEN "invalid_argument"
    ELSE IF ~TensorMapsOk(c) THEN "abort"
    ELSE "launched"

\* torch::empty({0}) or torch::empty({batch_size, num_qo_heads, qo_len}).
LseAlloc(c) ==
    IF c.return_lse # 0 THEN <<c.batch, c.hq, c.qo_len>> ELSE <<0>>

\* dim3 grid(div_ceil(qo_len, CTA_Q), num_qo_heads, batch_size)
GridDim(c) == <<div_ceil(c.qo_len, CTA_Q), c.hq, c.batch>>

\* What the launch hands to the kernel: its template arguments (head_dim,
\* the granularity, mask_mode, return_lse, fuse_v_scale), the grid, and the
\* arguments stride_bz_o, stride_h_o, stride_seq_o, qo_len, kv_len,
\* num_kv_groups, and the pointers Q_scale, K_scale, V_scale, O and Lse,
\* each the data pointer of a tensor or nullptr.
KernelArgs(c) ==
    [head_dim |-> c.head_dim, gran |-> c.gran, causal |-> c.causal # 0,
     return_lse |-> c.return_lse # 0, fused |-> c.fused, gridDim |-> GridDim(c),
     stride_bz_o |-> stride_bz_o(c), stride_h_o |-> stride_h_o(c),
     stride_seq_o |-> stride_seq_o(c), qo_len |-> c.qo_len, kv_len |-> c.kv_len,
     num_kv_groups |-> num_kv_groups(c),
     Q_scale |-> "query_scale", K_scale |-> "key_scale",
     V_scale |-> IF c.fused THEN "value_scale" ELSE "nullptr",
     O |-> "output", Lse |-> IF c.return_lse # 0 THEN "lse" ELSE "nullptr"]

\* Before the launch there is no kernel.
NoKernel == [gridDim |-> <<0, 0, 0>>]

(***************************************************************************)
(* Kernel qk_int8_sv_f8_attn_kernel: index arithmetic of thread tid of     *)
(* block blk = <<blockIdx.x, blockIdx.y, blockIdx.z>> launched with the    *)
(* arguments ka.                                                           *)
(***************************************************************************)
\* The blocks of the grid.
Grid(ka) ==
    {<<x, y, z>> : x \in 0 .. (ka.gridDim[1] - 1), y \in 0 .. (ka.gridDim[2] - 1),
                   z \in 0 .. (ka.gridDim[3] - 1)}

bx(blk) == blk[1]

head_id(blk) == blk[2]

batch_id(blk) == blk[3]

\* gridDim.y and gridDim.x
num_qo_heads(ka) == ka.gridDim[2]

gridDim_x(ka) == ka.gridDim[1]

\* Variant: the head taken modulo the group count.
kv_head_id_mod(ka, blk) == head_id(blk) % ka.num_kv_groups

kv_head_id(ka, blk) == head_id(blk) \div ka.num_kv_groups

\* Variant: the per-warp index without the warp.
q_scale_idx_no_warp(ka, blk, tid) ==
    LET num_warp_block_q == gridDim_x(ka) * 4 IN
    CASE ka.gran = "kPerBlock" ->
            batch_id(blk) * num_qo_heads(ka) * gridDim_x(ka)
            + head_id(blk) * gridDim_x(ka) + bx(blk)
      [] ka.gran = "kPerWarp" ->
            batch_id(blk) * num_qo_heads(ka) * num_warp_block_q
            + head_id(blk) * num_warp_block_q + bx(blk) * 4
      [] OTHER ->
            batch_id(blk) * num_qo_heads(ka) * (num_warp_block_q * 8)
            + head_id(blk) * (num_warp_block_q * 8) + bx(blk) * (4 * 8)
            + warp_idx(tid) * 8 + (lane_id(tid) \div 4)

q_scale_idx(ka, blk, tid) ==
    LET num_warp_block_q == gridDim_x(ka) * 4 IN
    CASE ka.gran = "kPerBlock" ->
            batch_id(blk) * num_qo_heads(ka) * gridDim_x(ka)
            + head_id(blk) * gridDim_x(ka) + bx(blk)
      [] ka.gran = "kPerWarp" ->
            batch_id(blk) * num_qo_heads(ka) * num_warp_block_q
            + head_id(blk) * num_warp_block_q + bx(blk) * 4 + warp_idx(tid)
      [] OTHER ->
            batch_id(blk) * num_qo_heads(ka) * (num_warp_block_q * 8)
            + head_id(blk) * (num_warp_block_q * 8) + bx(blk) * (4 * 8)
            + warp_idx(tid) * 8 + (lane_id(tid) \div 4)

k_scale_idx(ka, blk, tid) ==
    LET num_block_k == div_ceil(ka.kv_len, CTA_K) IN
    IF ka.gran \in {"kPerBlock", "kPerWarp"}
    THEN batch_id(blk) * (num_qo_heads(ka) \div ka.num_kv_groups) * num_block_k
         + (head_id(blk) \div ka.num_kv_groups) * num_block_k
    ELSE batch_id(blk) * (num_qo_heads(ka) \div ka.num_kv_groups) * (num_block_k * 4)
         + (head_id(blk) \div ka.num_kv_groups) * (num_block_k * 4)
         + (lane_id(tid) % 4)

k_scale_advance_offset(ka) ==
    IF ka.gran \in {"kPerBlock", "kPerWarp"} THEN 1 ELSE 4

Q_idx_lane_base(blk, tid) ==
    bx(blk) * CTA_Q + warp_idx(tid) * 16 + (lane_id(tid) \div 4)

\* Variant: the causal limit taken at the first row of the query tile.
num_iterations_first_row(ka, blk) ==
    div_ceil(IF ka.causal THEN Min(ka.kv_len, bx(blk) * CTA_Q)
             ELSE ka.kv_len,
             CTA_K)

num_iterations(ka, blk) ==
    div_ceil(IF ka.causal THEN Min(ka.kv_len, (bx(blk) + 1) * CTA_Q)
             ELSE ka.kv_len,
             CTA_K)

\* Key tiles the block processes: iter - 1 in the loop, num_iterations - 1
\* in the unrolled last step.
Tiles(ka, blk) == 0 .. (num_iterations(ka, blk) - 1)

\* Variant: the entry of the tile after t.
KScaleReadNext(ka, blk, tid, t) ==
    k_scale_idx(ka, blk, tid) + (t + 1) * k_scale_advance_offset(ka)

\* Index of the K_scale entry read for tile t.
KScaleRead(ka, blk, tid, t) ==
    k_scale_idx(ka, blk, tid) + t * k_scale_advance_offset(ka)

\* Variant: register k of RO[fq][fv] takes v_scale[k % 4].
VScaleOfPlain(ka, blk, tid, fv, k) ==
    batch_id(blk) * (num_qo_heads(ka) \div ka.num_kv_groups) * ka.head_dim
    + (head_id(blk) \div ka.num_kv_groups) * ka.head_dim + (lane_id(tid) % 4) * 2
    + fv * 16 + (IF (k % 4) >= 2 THEN 8 ELSE 0) + (k % 2)

\* Index of the V_scale entry register k of RO[fq][fv] is multiplied by:
\* registers 0, 2 take v_scale[0], 1, 3 v_scale[1], 4, 6 v_scale[2] and 5, 7
\* v_scale[3]; v_scale[0..1] is read at fv * 16 and v_scale[2..3] at
\* fv * 16 + 8 from V_scale_base_ptr.
VScaleOf(ka, blk, tid, fv, k) ==
    batch_id(blk) * (num_qo_heads(ka) \div ka.num_kv_groups) * ka.head_dim
    + (head_id(blk) \div ka.num_kv_groups) * ka.head_dim + (lane_id(tid) % 4) * 2
    + fv * 16 + (IF k >= 4 THEN 8 ELSE 0) + (k % 2)

\* Variant: the reads of V_scale compiled into every specialization.
VScaleReadsAlways(ka, blk, tid) ==
    LET base == batch_id(blk) * (num_qo_heads(ka) \div ka.num_kv_groups) * ka.head_dim
                + (head_id(blk) \div ka.num_kv_groups) * ka.head_dim
                + (lane_id(tid) % 4) * 2
    IN  {base + fv * 16 + j + e :
            fv \in 0 .. (num_tiles_v(ka.head_dim) - 1), j \in {0, 8}, e \in {0, 1}}

\* Indices of the V_scale entries a thread reads (two float2 per fv).
VScaleReads(ka, blk, tid) ==
    LET base == batch_id(blk) * (num_qo_heads(ka) \div ka.num_kv_groups) * ka.head_dim
                + (head_id(blk) \div ka.num_kv_groups) * ka.head_dim
                + (lane_id(tid) % 4) * 2
    IN  IF ka.fused
        THEN {base + fv * 16 + j + e :
                fv \in 0 .. (num_tiles_v(ka.head_dim) - 1), j \in {0, 8}, e \in {0, 1}}
        ELSE {}

\* Every scale read of a block: <<array, tile, index>>.
BlockScaleReads(ka, blk) ==
    {<<"Q", 0, q_scale_idx(ka, blk, tid)>> : tid \in Threads}
    \cup {<<"K", t, KScaleRead(ka, blk, tid, t)>> :
            tid \in Threads, t \in Tiles(ka, blk)}
    \cup {<<"V", 0, i>> : i \in UNION {VScaleReads(ka, blk, tid) : tid \in Threads}}

\* Every load_async_4D thread 0 issues: <<tensor, tile, s0, s1, s2, s3>>.
\* Tile 0 of K and V is loaded in the prologue, tile iter in loop round iter.
BlockLoads(ka, blk) ==
    {<<"Q", 0, 0, bx(blk) * CTA_Q, head_id(blk), batch_id(blk)>>}
    \cup {<<"K", t, 0, t * CTA_K, kv_head_id(ka, blk), batch_id(blk)>> :
            t \in Tiles(ka, blk)}
    \cup {<<"V", t, t * CTA_K, 0, kv_head_id(ka, blk), batch_id(blk)>> :
            t \in Tiles(ka, blk)}

\* Variant: the row within the query tile, without the block's first row.
q_idx_in_tile(blk, tid, fq, k) ==
    warp_idx(tid) * 16 + (lane_id(tid) \div 4) + fq * 64 + 8 * ((k % 4) \div 2)

\* Row and key column of register RS[fq][fk][k] (the masking loop), which is
\* also the row of RO[fq][fv][k].
q_idx(blk, tid, fq, k) == Q_idx_lane_base(blk, tid) + fq * 64 + 8 * ((k % 4) \div 2)

\* Variant: the key column within the tile, without the tile's first key.
k_idx_in_tile(ka, blk, tid, fk, k) ==
    fk * 16 + 2 * (lane_id(tid) % 4) + 8 * (k \div 4) + (k % 2)

k_idx(ka, blk, tid, fk, k) ==
    (num_iterations(ka, blk) - 1) * CTA_K + fk * 16 + 2 * (lane_id(tid) % 4)
    + 8 * (k \div 4) + (k % 2)

\* Row of the running registers m[fq][kk], d[fq][kk]: d[fq][0] sums registers
\* 0, 1, 4, 5 and d[fq][1] registers 2, 3, 6, 7.
DRow(blk, tid, fq, kk) == q_idx(blk, tid, fq, 2 * kk)

\* Variant: the lane pointer without the warp's 16 rows.
O_lane_ptr_no_warp(ka, blk, tid) ==
    batch_id(blk) * ka.stride_bz_o + head_id(blk) * ka.stride_h_o
    + (bx(blk) * CTA_Q + (lane_id(tid) \div 4)) * ka.stride_seq_o
    + (lane_id(tid) % 4) * 2

O_lane_ptr(ka, blk, tid) ==
    batch_id(blk) * ka.stride_bz_o + head_id(blk) * ka.stride_h_o
    + (bx(blk) * CTA_Q + warp_idx(tid) * 16 + (lane_id(tid) \div 4)) * ka.stride_seq_o
    + (lane_id(tid) % 4) * 2

\* Variant: the first guard used for all four float2.
StoreGuardFirst(ka, blk, tid, fq, j) ==
    Q_idx_lane_base(blk, tid) + fq * 64 < ka.qo_len

\* The two row guards of the writeback: float2 0 and 2 of RO[fq][fv] belong
\* to the lane's first row, float2 1 and 3 to the row 8 below.
StoreGuard(ka, blk, tid, fq, j) ==
    IF j \in {0, 2} THEN Q_idx_lane_base(blk, tid) + fq * 64 < ka.qo_len
    ELSE Q_idx_lane_base(blk, tid) + fq * 64 + 8 < ka.qo_len

\* Variant: float2 1 and 3 go 8 columns right, float2 2 and 3 go 8 rows down.
StoreAddrSwapped(base, ss, fq, fv, j, e) ==
    base + fq * 64 * ss + fv * 16 + (IF j \in {1, 3} THEN 8 ELSE 0)
    + (IF j \in {2, 3} THEN 8 * ss ELSE 0) + e

\* Offset of element e of float2 j of RO[fq][fv], from the lane pointer base:
\* float2 j goes to column offset 8 for j in {2, 3} and 8 rows down for j in
\* {1, 3}.
StoreAddr(base, ss, fq, fv, j, e) ==
    base + fq * 64 * ss + fv * 16 + (IF j \in {2, 3} THEN 8 ELSE 0)
    + (IF j \in {1, 3} THEN 8 * ss ELSE 0) + e

\* The float2 stores of a thread that pass their guard: <<fq, j>> for float2
\* j of RO[fq][fv], every fv.  The first guard lets float2 0 and 2 through,
\* the second float2 1 and 3.
GuardedStores(ka, blk, tid) ==
    {g \in {<<fq, j>> : fq \in 0 .. (num_tiles_q - 1), j \in 0 .. 3} :
        StoreGuard(ka, blk, tid, g[1], g[2])}

\* What the stores of a thread do to the output: the offsets stored to
\* (seen), the number of stores (n) and the offsets stored to more than once
\* (dup).
ThreadStores(ka, blk, tid) ==
    LET base == O_lane_ptr(ka, blk, tid)
        gs == GuardedStores(ka, blk, tid)
        fvs == 0 .. ((ka.head_dim \div 16) - 1)
        seen == {StoreAddr(base, ka.stride_seq_o, g[1], fv, g[2], e) :
                    g \in gs, fv \in fvs, e \in 0 .. 1}
        n == Cardinality(gs) * Cardinality(fvs) * 2
    IN  [seen |-> seen, n |-> n,
         dup |-> IF Cardinality(seen) = n THEN {}
                 ELSE {a \in seen :
                         Cardinality({op \in gs \X fvs \X (0 .. 1) :
                             StoreAddr(base, ka.stride_seq_o, op[1][1], op[2],
                                       op[1][2], op[3]) = a}) > 1}]

RECURSIVE BlockStores(_, _, _, _)
\* The same for the threads lo .. hi of a block.
BlockStores(ka, blk, lo, hi) ==
    IF lo = hi THEN ThreadStores(ka, blk, lo)
    ELSE LET mid == (lo + hi) \div 2
             s1 == BlockStores(ka, blk, lo, mid)
             s2 == BlockStores(ka, blk, mid + 1, hi)
             seen == s1.seen \cup s2.seen
         IN  [seen |-> seen, n |-> s1.n + s2.n,
              dup |-> IF Cardinality(seen) = s1.n + s2.n THEN {}
                      ELSE s1.dup \cup s2.dup \cup (s1.seen \cap s2.seen)]

\* The Lse store of a thread: <<offset, row of the register stored>>.
lse_idx(blk, tid) ==
    bx(blk) * CTA_Q + (lane_id(tid) \div 4) + 8 * (lane_id(tid) % 4)
    + 16 * warp_idx(tid)

\* Variant: the store without the lane condition.
LseStoreEveryLane(ka, blk, tid) ==
    LET fq == (lane_id(tid) % 4) \div 2
        k == (lane_id(tid) % 4) % 2
    IN  IF ka.return_lse /\ lse_idx(blk, tid) < ka.qo_len
        THEN {<<batch_id(blk) * (ka.qo_len * num_qo_heads(ka))
                + head_id(blk) * ka.qo_len + lse_idx(blk, tid),
                DRow(blk, tid, fq, k)>>}
        ELSE {}

LseStore(ka, blk, tid) ==
    LET fq == (lane_id(tid) % 4) \div 2
        k == (lane_id(tid) % 4) % 2
    IN  IF ka.return_lse /\ lse_idx(blk, tid) < ka.qo_len /\ (lane_id(tid) % 4) < 2
        THEN {<<batch_id(blk) * (ka.qo_len * num_qo_heads(ka))
                + head_id(blk) * ka.qo_len + lse_idx(blk, tid),
                DRow(blk, tid, fq, k)>>}
        ELSE {}

(***************************************************************************)
(* Calls the model draws.  CallsW1, CallsW2 vary what the stores depend on, *)
(* CallsR1 .. CallsR3 what the loads and the scale reads depend on.        *)
(***************************************************************************)
QoLens == {q \in 0 .. MaxQoLen : q <= 1 \/ q >= CTA_Q - 1}

KvLens == {k \in 0 .. MaxKvLen : (k % CTA_K) <= 1 \/ k = MaxKvLen}

PadRows(q) == div_ceil(q, CTA_Q) * CTA_Q

MkCall(layout, causal, gran, return_lse, fused, batch, hq, hkv, qo_len, kv_len,
       head_dim, v_len, qs_len, ks_len, vs_len, o_rows) ==
    [layout |-> layout, causal |-> causal, gran |-> gran,
     return_lse |-> return_lse, fused |-> fused, batch |-> batch, hq |-> hq,
     hkv |-> hkv, qo_len |-> qo_len, kv_len |-> kv_len, head_dim |-> head_dim,
     v_len |-> v_len, qs_len |-> qs_len, ks_len |-> ks_len, vs_len |-> vs_len,
     o_rows |-> o_rows]

\* A call whose scale tensors and value padding are as the wrapper demands.
WellShaped(layout, causal, gran, return_lse, fused, batch, hq, hkv, qo_len,
           kv_len, head_dim, o_rows) ==
    LET c0 == MkCall(layout, causal, gran, return_lse, fused, batch, hq, hkv,
                     qo_len, kv_len, head_dim, 0, 0, 0, 0, o_rows)
    IN  [c0 EXCEPT !.v_len = div_ceil(kv_len, CTA_K) * CTA_K,
                   !.qs_len = QScaleLen(c0), !.ks_len = KScaleLen(c0),
                   !.vs_len = IF fused THEN head_dim ELSE 0]

\* Stores of one (batch, head) pair: every layout, padding of the output
\* buffer, head dimension and query length.
CallsW1 ==
    {WellShaped(layout, 0, "kPerWarp", 1, FALSE, 1, 1, 1, qo_len, 1, head_dim,
                IF pad THEN PadRows(qo_len) ELSE qo_len) :
        layout \in {0, 1}, qo_len \in QoLens, head_dim \in HeadDims,
        pad \in BOOLEAN}

\* Stores of the blocks of several batches or heads.
CallsW2 ==
    {c \in {WellShaped(layout, 0, "kPerWarp", 1, FALSE, batch, hq, 1, qo_len, 1,
                       64, IF pad THEN PadRows(qo_len) ELSE qo_len) :
                layout \in {0, 1}, batch \in 1 .. MaxBatch, hq \in 1 .. MaxHeads,
                qo_len \in {1, CTA_Q - 1, CTA_Q}, pad \in BOOLEAN} :
        c.batch * c.hq > 1 /\ c.batch * c.hq <= MaxBlocks}

\* Loads and scale reads of one query row: every head grouping and
\* granularity over two key tiles.
CallsR1 ==
    {c \in {WellShaped(0, 0, gran, 0, fused, batch, hq, hkv, 1, CTA_K + 1, 64, 1) :
                gran \in {"kPerWarp", "kPerThread"}, fused \in BOOLEAN,
                batch \in {1, MaxBatch}, hq \in {1, MaxHeads}, hkv \in {1, 2}} :
        c.batch * c.hq <= MaxHeads}

\* Every granularity, head dimension and key length for one head.
CallsR2 ==
    {WellShaped(0, 0, gran, 0, fused, 1, 1, 1, 1, kv_len, head_dim, 1) :
        gran \in {"kPerBlock", "kPerWarp", "kPerThread"}, fused \in BOOLEAN,
        kv_len \in KvLens, head_dim \in HeadDims \cup {96}}

\* Causal runs over three query tiles.
CallsR3 ==
    {WellShaped(0, 1, gran, 0, FALSE, 1, 1, 1, 2 * CTA_Q + 1, kv_len, 64,
                2 * CTA_Q + 1) :
        gran \in {"kPerWarp", "kPerThread"}, kv_len \in {CTA_K + 1, MaxKvLen}}

\* Calls whose scale tensors or value padding are not as demanded.
CallsBad ==
    {[c EXCEPT !.v_len = c.v_len - dl[1], !.qs_len = c.qs_len + dl[2],
               !.ks_len = c.ks_len - dl[3],
               !.vs_len = IF c.fused THEN c.vs_len - dl[4] ELSE 0] :
        c \in {x \in CallsR2 : x.kv_len = CTA_K + 1 /\ x.head_dim = 64},
        dl \in {<<0, 0, 0, 0>>, <<1, 0, 0, 0>>, <<0, 1, 0, 0>>, <<0, 0, 1, 0>>,
               <<0, 0, 0, 1>>, <<1, 1, 1, 1>>}}

Calls == CallsW1 \cup CallsW2 \cup CallsR1 \cup CallsR2 \cup CallsR3 \cup CallsBad

NoLog == [b \in {} |-> {}]

Init ==
    /\ call \in Calls
    /\ hpc = "called"
    /\ lse_shape = <<>>
    /\ kargs = NoKernel
    /\ ran = {}
    /\ O = NoLog
    /\ Odup = {}
    /\ Lse = NoLog
    /\ LseDup = {}
    /\ loads = NoLog
    /\ sreads = NoLog
    /\ RowOff
    /\ PipeOff
    /\ HostOff
    /\ ThreadOff
    /\ AddrOff

\* The whole host function: checks, lse allocation, descriptors, launch.
HostCall ==
    /\ hpc = "called"
    /\ hpc' = HostOutcome(call)
    /\ lse_shape' = IF HostOutcome(call) = "launched" THEN LseAlloc(call) ELSE <<>>
    /\ kargs' = IF HostOutcome(call) = "launched" THEN KernelArgs(call) ELSE NoKernel
    /\ UNCHANGED <<call, ran, O, Odup, Lse, LseDup, loads, sreads, rvars, pvars, hvars, xvars, avars>>

\* log with the entry of block blk added.
Logged(log, blk, entry) ==
    [b \in ran \cup {blk} |-> IF b = blk THEN entry ELSE log[b]]

\* Lse offsets stored to by more than one of the threads tids.
LseCollisions(ka, blk, tids, LW) ==
    IF Cardinality(LW) = Cardinality(tids) THEN {}
    ELSE {a \in LW : Cardinality({tid \in tids :
                                     \E x \in LseStore(ka, blk, tid) : x[1] = a}) > 1}

\* One block of the grid runs to completion.
RunBlock(blk) ==
    /\ hpc = "launched"
    /\ blk \in Grid(kargs) \ ran
    /\ Cardinality(ran) < MaxBlocks
    /\ LET st == BlockStores(kargs, blk, 0, NUM_THREADS - 1)
           tids == {tid \in Threads : LseStore(kargs, blk, tid) # {}}
           LS == UNION {LseStore(kargs, blk, tid) : tid \in tids}
           LW == {x[1] : x \in LS}
       IN  /\ O' = Logged(O, blk, st.seen)
           /\ Odup' = Odup \cup st.dup \cup UNION {O[b] \cap st.seen : b \in ran}
           /\ Lse' = Logged(Lse, blk, LS)
           /\ LseDup' = LseDup
                         \cup UNION {{x[1] : x \in Lse[b]} \cap LW : b \in ran}
                         \cup LseCollisions(kargs, blk, tids, LW)
    /\ loads' = Logged(loads, blk, BlockLoads(kargs, blk))
    /\ sreads' = Logged(sreads, blk, BlockScaleReads(kargs, blk))
    /\ ran' = ran \cup {blk}
    /\ UNCHANGED <<call, hpc, lse_shape, kargs, rvars, pvars, hvars, xvars, avars>>

Next ==
    \/ HostCall
    \/ \E blk \in Grid(kargs) : RunBlock(blk)

Spec == Init /\ [][Next]_vars

(***************************************************************************)
(* Properties of the grid.  The tensors are those of the call: output is   *)
(* (batch, qo_len, heads, head_dim) or (batch, heads, qo_len, head_dim)    *)
(* with the strides of its buffer, lse is contiguous (batch, heads,        *)
(* qo_len), the scale tensors are contiguous (batch, heads, extent).       *)
(***************************************************************************)
\* Offset of output element (batch_id, head_id, r, 0) of a block's head.
RowBase(ka, blk, r) ==
    batch_id(blk) * ka.stride_bz_o + head_id(blk) * ka.stride_h_o
    + r * ka.stride_seq_o

\* Rows of a block's query tile that exist.
TileRows(ka, blk) ==
    {r \in (bx(blk) * CTA_Q) .. ((bx(blk) + 1) * CTA_Q - 1) : r < ka.qo_len}

\* Offsets of the elements of those rows.
TileElems(ka, blk) ==
    {rb + col : rb \in {RowBase(ka, blk, r) : r \in TileRows(ka, blk)},
                col \in 0 .. (ka.head_dim - 1)}

\* C4: a block stores to exactly the elements of the rows < qo_len of its
\* query tile: nothing of a row >= qo_len or outside the tensor is touched,
\* and every element of every row < qo_len of the tile is written.
ThmC4 == \A b \in ran : O[b] = TileElems(kargs, b)

\* A block whose tile reaches past qo_len has run on a buffer that has rows
\* past qo_len.
WitC4 ==
    \E b \in ran : /\ (bx(b) + 1) * CTA_Q > call.qo_len
                    /\ call.qo_len % CTA_Q # 0
                    /\ call.o_rows > call.qo_len
                    /\ O[b] # {}

\* C5: no output element is stored to twice, neither by two threads of a
\* block nor by two blocks, in whatever order the blocks run; and once the
\* grid has run every element (batch, head, row < qo_len, col < head_dim)
\* has been stored to.
ThmC5 ==
    /\ Odup = {}
    /\ \A b1 \in ran : \A b2 \in ran \ {b1} : O[b1] \cap O[b2] = {}
    /\ (hpc = "launched" /\ ran = Grid(kargs)) =>
          \A z \in 0 .. (call.batch - 1) : \A y \in 0 .. (call.hq - 1) :
            \A r \in 0 .. (call.qo_len - 1) :
              LET b == <<r \div CTA_Q, y, z>>
                  rb == RowBase(kargs, b, r)
              IN  \A col \in 0 .. (call.head_dim - 1) : rb + col \in O[b]

\* The whole grid, of two blocks or more, has run.
WitC5 ==
    /\ hpc = "launched"
    /\ ran = Grid(kargs)
    /\ Cardinality(ran) >= 2
    /\ \A b \in ran : O[b] # {}

\* The kv head of query head h of the call.
KvHead(c, h) == h \div (c.hq \div c.hkv)

\* C6: the block of query head h uses kv head floor(h / num_kv_groups),
\* which is < num_kv_heads, in every K load, V load, K_scale index and
\* V_scale index, and blocks of one group of heads use the same kv head.
ThmC6 ==
    /\ \A b \in ran :
          LET kvh == KvHead(call, head_id(b))
              row == batch_id(b) * call.hkv + kvh
          IN  /\ kvh < call.hkv
              /\ \A l \in loads[b] : l[1] \in {"K", "V"} => l[5] = kvh
              /\ \A x \in sreads[b] :
                    /\ x[1] = "K" => x[3] \div call.ks_len = row
                    /\ x[1] = "V" => x[3] \div call.vs_len = row
    /\ \A b1 \in ran : \A b2 \in ran :
          (head_id(b1) \div kargs.num_kv_groups
             = head_id(b2) \div kargs.num_kv_groups)
          => {l[5] : l \in {x \in loads[b1] : x[1] \in {"K", "V"}}}
               = {l[5] : l \in {x \in loads[b2] : x[1] \in {"K", "V"}}}

\* A block of the second head of a group that is not the first group has
\* run in a fused call with several kv heads.
WitC6 ==
    \E b \in ran : /\ call.hkv > 1 /\ call.hq > call.hkv /\ call.fused
                    /\ KvHead(call, head_id(b)) >= 1
                    /\ head_id(b) % (call.hq \div call.hkv) >= 1
                    /\ \E x \in sreads[b] : x[1] = "V"
                    /\ \E l \in loads[b] : l[1] = "K" /\ l[2] >= 1

\* Number of entries of a scale tensor of the call.
ScaleExtent(c, array) ==
    CASE array = "Q" -> c.batch * c.hq * c.qs_len
      [] array = "K" -> c.batch * c.hkv * c.ks_len
      [] OTHER -> c.batch * c.hkv * c.vs_len

\* C7: every index a launched kernel reads Q_scale, K_scale or V_scale at
\* is inside the tensor, and K_scale is read once for every tile processed.
ThmC7 ==
    \A b \in ran :
        /\ \A x \in sreads[b] : 0 <= x[3] /\ x[3] < ScaleExtent(call, x[1])
        /\ {x[2] : x \in {y \in sreads[b] : y[1] = "K"}}
             = 0 .. (num_iterations(kargs, b) - 1)

\* The last entry of K_scale is read for a tile that is not the first.
WitC7 ==
    \E b \in ran : \E x \in sreads[b] :
        /\ x[1] = "K" /\ x[2] >= 1
        /\ x[3] = ScaleExtent(call, "K") - 1
        /\ call.gran = "kPerThread"

\* Offset of lse entry (batch_id, head_id, r) of a block's head.
LseOffset(c, blk, r) == (batch_id(blk) * c.hq + head_id(blk)) * c.qo_len + r

\* C10: the tensor returned is (batch, heads, qo_len) when return_lse is
\* nonzero and the empty placeholder otherwise; with return_lse a block
\* stores once to every entry of the rows < qo_len of its tile and to nothing
\* else, each from the registers m, d of that row, and no entry is stored to
\* twice over the grid; without it nothing is stored.
ThmC10 ==
    /\ hpc = "launched" =>
          lse_shape = IF call.return_lse # 0
                      THEN <<call.batch, call.hq, call.qo_len>> ELSE <<0>>
    /\ LseDup = {}
    /\ \A b \in ran :
          IF call.return_lse = 0 THEN Lse[b] = {}
          ELSE /\ {x[1] : x \in Lse[b]}
                    = {LseOffset(call, b, r) : r \in TileRows(kargs, b)}
               /\ \A x \in Lse[b] : x[1] = LseOffset(call, b, x[2])
               /\ Cardinality(Lse[b]) = Cardinality(TileRows(kargs, b))
    /\ \A b1 \in ran : \A b2 \in ran \ {b1} :
          {x[1] : x \in Lse[b1]} \cap {x[1] : x \in Lse[b2]} = {}

\* The whole grid, of two blocks, the last with a partial tile, has run
\* with return_lse.
WitC10 ==
    /\ hpc = "launched"
    /\ call.return_lse # 0
    /\ ran = Grid(kargs)
    /\ Cardinality(ran) >= 2
    /\ call.qo_len % CTA_Q # 0
    /\ \A b \in ran : Lse[b] # {}

(***************************************************************************)
(* SpecRow: the registers of one query row through the kernel.  The row is *)
(* held by the four lanes tid .. tid + 3 of a warp (lane_id % 4 = 0 .. 3), *)
(* each with 32 of the 128 scores of a key tile.                           *)
(*                                                                         *)
(* Scores and the running maximum are integers (base-2 exponents).         *)
(* Probabilities, the running sums and the accumulator are counted in      *)
(* units of 2^-MaxScore, so that float arithmetic on the values of the     *)
(* model is exact; One is 1.0f.                                            *)
(***************************************************************************)
Sentinel == -5000000

MaxScore == 10
MaxRowTiles == 2

One == 2 ^ MaxScore

Max(a, b) == IF a < b THEN b ELSE a

\* a * b of two values counted in units of 2^-MaxScore.
MulFx(a, b) == (a \div One) * b + ((a % One) * b) \div One

\* ex2.approx.ftz.f32 for x <= 0.  The exponents of the model are either
\* >= -MaxScore or of the order of the sentinel, where the float result is 0.
ptx_exp2(x) == IF x >= -MaxScore THEN 2 ^ (MaxScore + x) ELSE 0

\* lg2.approx.f32 of a sum v, kept as the sum it is the logarithm of.
ptx_log2(v) == [log2_of |-> v]

RECURSIVE FloorLog2(_)
FloorLog2(v) == IF v <= 1 THEN 0 ELSE 1 + FloorLog2(v \div 2)

\* v rounded to a multiple of u, ties to the even multiple (cvt.rn).
RoundTo(v, u) ==
    LET q == v \div u
        r == v % u
    IN  IF 2 * r < u \/ (2 * r = u /\ q % 2 = 0) THEN q * u ELSE (q + 1) * u

\* One probability (0 <= p <= 1.0) narrowed to e4m3: three mantissa bits,
\* the smallest subnormal is 2^-9.
RS_32_to_8(p) ==
    LET sub == IF MaxScore > 9 THEN 2 ^ (MaxScore - 9) ELSE 1
        e == FloorLog2(p)
        ulp == Max(IF e > 3 THEN 2 ^ (e - 3) ELSE 1, sub)
    IN  IF p = 0 THEN 0 ELSE RoundTo(p, ulp)

(***************************************************************************)
(* The data of a row r:                                                    *)
(*   causal, kv_len, fused    as in the kernel arguments                   *)
(*   blk, tid, kk   the block, the first lane of the row and the row half  *)
(*   gran, gridDim, num_kv_groups   what the scale indices depend on       *)
(*   sm_scale, q_scale    the argument sm_scale and the row's Q_scale      *)
(*   k2         the index at which K_scale is 2; it is 1 elsewhere         *)
(*   v_scale    V_scale of the output column                               *)
(*   s0, v0     the QK^T accumulator and the V element of an ordinary key  *)
(*   hot        <<key, accumulator, V element>> of the other keys          *)
(***************************************************************************)
RawScore(r, j) ==
    IF \E h \in r.hot : h[1] = j THEN (CHOOSE h \in r.hot : h[1] = j)[2] ELSE r.s0

VElem(r, j) ==
    IF \E h \in r.hot : h[1] = j THEN (CHOOSE h \in r.hot : h[1] = j)[3] ELSE r.v0

K_scale(r, idx) == IF idx = r.k2 THEN 2 ELSE 1

\* dequant_scale of lane q of the row for tile t.
dequant_scale(r, t, q) ==
    r.q_scale * K_scale(r, KScaleRead(r, r.blk, r.tid + q, t))

\* The registers of the row: n - 1 = 32 * (lane_id % 4) + 4 * fk + position
\* of k among the registers d[fq][kk] sums.
Regs == 1 .. CTA_K

RegLane(n) == (n - 1) \div 32

RegFk(n) == ((n - 1) % 32) \div 4

\* A register array as the sequence of its values.
RegArray(f) == SubSeq(f, 1, CTA_K)

\* Variant: d[fq][kk] sums two of its four registers.
DRegsHalf(kk) == IF kk = 0 THEN <<0, 1, 0, 1>> ELSE <<2, 3, 2, 3>>

DRegs(kk) == IF kk = 0 THEN <<0, 1, 4, 5>> ELSE <<2, 3, 6, 7>>

RegK(kk, n) == DRegs(kk)[((n - 1) % 4) + 1]

\* Key column within the tile of register RS[fq][fk][k].
RegCol(tid, fk, k) == fk * 16 + 2 * (lane_id(tid) % 4) + 8 * (k \div 4) + (k % 2)

\* Key position register n of the row holds while tile t is in sK.
KeyOf(r, t, n) == t * CTA_K + RegCol(r.tid + RegLane(n), RegFk(n), RegK(r.kk, n))

\* Query position of the row.
RowOf(r) == DRow(r.blk, r.tid, 0, r.kk)

\* Variant: the causal bound is not applied.
is_out_of_bounds_len(ka, ki, qi) == ki >= ka.kv_len

is_out_of_bounds(ka, ki, qi) ==
    IF ka.causal THEN ki > qi \/ ki >= ka.kv_len ELSE ki >= ka.kv_len

RECURSIVE SumOf(_, _, _)
SumOf(f, lo, hi) ==
    IF lo > hi THEN 0
    ELSE IF lo = hi THEN f[lo]
    ELSE SumOf(f, lo, (lo + hi) \div 2) + SumOf(f, ((lo + hi) \div 2) + 1, hi)

RECURSIVE MaxOf(_, _, _)
MaxOf(f, lo, hi) ==
    IF lo = hi THEN f[lo]
    ELSE Max(MaxOf(f, lo, (lo + hi) \div 2), MaxOf(f, ((lo + hi) \div 2) + 1, hi))

\* update_mdo on the row: the new maximum of the scaled scores, the factor
\* that carries d and RO over to it, and the scores replaced by
\* 2^(score * sm_scale - maximum); sm_scale[q] is the argument of lane q.
update_mdo(RS_f32, mPrev, sm_scale) ==
    LET sc == RegArray([n \in Regs |-> RS_f32[n] * sm_scale[RegLane(n)]])
        mNew == Max(mPrev, MaxOf(sc, 1, CTA_K))
    IN  [m |-> mNew, o_scale |-> ptx_exp2(mPrev - mNew),
         RS_f32 |-> RegArray([n \in Regs |-> ptx_exp2(sc[n] - mNew)])]

\* normalize_d: the sums of the four lanes are added up, every lane keeps
\* the total and divides its accumulators by it.
normalize_d(acc, dd) ==
    LET tot == dd[0] + dd[1] + dd[2] + dd[3]
    IN  [d |-> [q \in 0 .. 3 |-> tot], RO |-> [num |-> acc, den |-> tot]]

\* One key tile t through the registers mq, dq, acc of the row: the scores
\* RS_f32 go through update_mdo, are added to d lane by lane, narrowed and
\* multiplied with V; RO_temp is added to RO.
TileStep(r, t, RS_f32, sm_scale, mq, dq, acc) ==
    LET u == update_mdo(RS_f32, mq[0], sm_scale)
        RS_f8 == RegArray([n \in Regs |-> RS_32_to_8(u.RS_f32[n])])
        RO_temp == SumOf(RegArray([n \in Regs |-> RS_f8[n] * VElem(r, KeyOf(r, t, n))]),
                         1, CTA_K)
    IN  [m |-> [q \in 0 .. 3 |-> u.m],
         d |-> [q \in 0 .. 3 |->
                    MulFx(dq[q], u.o_scale) + SumOf(u.RS_f32, 32 * q + 1, 32 * q + 32)],
         RO |-> MulFx(acc, u.o_scale) + RO_temp,
         weighted |-> {KeyOf(r, t, n) : n \in {x \in Regs : RS_f8[x] # 0}},
         lossy |-> \E n \in Regs : RS_f8[n] # u.RS_f32[n]]

\* The registers and the record of the row after a tile.
AfterTile(res) ==
    /\ m' = res.m
    /\ d' = res.d
    /\ RO' = res.RO
    /\ weighted' = weighted \cup res.weighted
    /\ lossy' = (lossy \/ res.lossy)

\* RS_f32 of the row in a round of the loop: the accumulators as floats.
LoopScores(r, t) == RegArray([n \in Regs |-> RawScore(r, KeyOf(r, t, n))])

\* One round of the loop over the key tiles before the last.
RowLoop ==
    /\ rpc = "loop"
    /\ iter < num_iterations(rin, rin.blk)
    /\ LET t == iter - 1
       IN  /\ AfterTile(TileStep(rin, t, LoopScores(rin, t),
                                 [q \in 0 .. 3 |-> rin.sm_scale * dequant_scale(rin, t, q)],
                                 m, d, RO))
           /\ soft' = soft \cup {KeyOf(rin, t, n) : n \in Regs}
    /\ iter' = iter + 1
    /\ UNCHANGED <<rin, rpc, clamped, out, gvars, pvars, hvars, xvars, avars>>

\* Registers of the row the masking loop sets to the sentinel.
Masked(r) ==
    {n \in Regs :
        is_out_of_bounds(r, k_idx(r, r.blk, r.tid + RegLane(n), RegFk(n), RegK(r.kk, n)),
                         q_idx(r.blk, r.tid + RegLane(n), 0, RegK(r.kk, n)))}

\* Variant: the accumulators of the last tile are not multiplied.
LastScoresRaw(r, t, mk) ==
    RegArray([n \in Regs |-> IF n \in mk THEN Sentinel
                             ELSE RawScore(r, KeyOf(r, t, n))])

\* RS_f32 of the row in the last tile: the accumulators times dequant_scale,
\* the registers mk set to the sentinel.
LastScores(r, t, mk) ==
    RegArray([n \in Regs |-> IF n \in mk THEN Sentinel
                             ELSE RawScore(r, KeyOf(r, t, n))
                                  * dequant_scale(r, t, RegLane(n))])

\* The last key tile, after the loop.
RowLast ==
    /\ rpc = "loop"
    /\ iter >= num_iterations(rin, rin.blk)
    /\ LET t == num_iterations(rin, rin.blk) - 1
           mk == Masked(rin)
       IN  /\ AfterTile(TileStep(rin, t, LastScores(rin, t, mk),
                                 [q \in 0 .. 3 |-> rin.sm_scale], m, d, RO))
           /\ soft' = soft \cup {KeyOf(rin, t, n) : n \in Regs \ mk}
           /\ clamped' = clamped \cup {KeyOf(rin, t, n) : n \in mk}
    /\ rpc' = "norm"
    /\ UNCHANGED <<rin, iter, out, gvars, pvars, hvars, xvars, avars>>

\* normalize_d, the fused value scale, the store of the row and of its lse
\* (by the lane with lane_id % 4 = kk, from its own d and m).
RowFinalize ==
    /\ rpc = "norm"
    /\ LET nd == normalize_d(RO, d)
       IN  /\ d' = nd.d
           /\ out' = [O |-> [num |-> IF rin.fused THEN nd.RO.num * rin.v_scale
                                     ELSE nd.RO.num,
                             den |-> nd.RO.den],
                      lse |-> [log2 |-> ptx_log2(nd.d[rin.kk]), plus |-> m[rin.kk]]]
    /\ rpc' = "done"
    /\ UNCHANGED <<rin, iter, m, RO, soft, clamped, weighted, lossy, gvars, pvars, hvars, xvars, avars>>

(***************************************************************************)
(* Rows the model draws.                                                   *)
(***************************************************************************)
MkRow(causal, kv_len, pos, sc, fv, s0, hot) ==
    [causal |-> causal, kv_len |-> kv_len, blk |-> <<pos[1], 0, 0>>, tid |-> pos[2],
     kk |-> pos[3], gran |-> sc[3], gridDim |-> <<pos[1] + 1, 1, 1>>,
     num_kv_groups |-> 1, sm_scale |-> sc[1], q_scale |-> sc[2], k2 |-> sc[4],
     fused |-> fv[1], v_scale |-> fv[2], s0 |-> s0, v0 |-> 1, hot |-> hot]

\* The K_scale entry of key j: one per tile, or per tile and (j % 8) \div 2
\* under per-thread granularity.
KGroup(r, j) ==
    IF r.gran = "kPerThread" THEN (j \div CTA_K) * 4 + ((j % 8) \div 2)
    ELSE j \div CTA_K

Score(r, j) == RawScore(r, j) * r.sm_scale * r.q_scale * K_scale(r, KGroup(r, j))

\* Every score of the row is within 0 .. MaxScore.
ScoresInRange(r) ==
    \A j \in {h[1] : h \in r.hot}
             \cup {t * CTA_K + 2 * q : t \in 0 .. (MaxRowTiles - 1), q \in 0 .. 3} :
        Score(r, j) \in 0 .. MaxScore

RowScales ==
    {<<1, 1, "kPerWarp", -1>>, <<2, 1, "kPerWarp", -1>>, <<1, 2, "kPerWarp", -1>>,
     <<1, 1, "kPerWarp", 0>>, <<1, 1, "kPerWarp", 1>>, <<1, 1, "kPerThread", 0>>,
     <<1, 1, "kPerThread", 4>>}

HotRaws == {MaxScore \div 2, MaxScore - 1, MaxScore}

\* Two key tiles, no causal mask: every scale, a high score in each tile.
RowsStream ==
    {MkRow(FALSE, kv_len, <<0, 0, 0>>, sc, <<FALSE, 1>>, 0,
           {<<k1, r1, 2>>, <<k2, r2, 1>>}) :
        kv_len \in {CTA_K + 1, MaxRowTiles * CTA_K}, sc \in RowScales,
        k1 \in {0, CTA_K - 1}, r1 \in HotRaws, k2 \in {CTA_K, CTA_K + 1},
        r2 \in HotRaws}

\* Causal rows of three query tiles, high scores around the diagonal.
RowsCausal ==
    {MkRow(TRUE, kv_len, pos, <<1, 1, "kPerWarp", -1>>, <<FALSE, 1>>, s0,
           {<<DRow(<<pos[1], 0, 0>>, pos[2], 0, pos[3]) + dk, r1, 2>>}) :
        kv_len \in {CTA_K + 1, MaxRowTiles * CTA_K},
        pos \in {<<0, 0, 0>>, <<0, 124, 1>>, <<1, 0, 0>>, <<2, 4, 1>>,
                 <<2 * (MaxRowTiles - 1), 0, 0>>, <<2 * MaxRowTiles - 1, 124, 1>>},
        s0 \in {0, 1}, dk \in {0, 1}, r1 \in HotRaws}

\* Key lengths around the tile width, data behind the last key.
RowsLen ==
    {MkRow(FALSE, kv_len, pos, <<1, 1, "kPerWarp", -1>>, fv, s0, {<<kv_len - dk, r1, 2>>}) :
        kv_len \in {1, CTA_K - 1, CTA_K, CTA_K + 1, MaxRowTiles * CTA_K},
        pos \in {<<0, 0, 0>>, <<0, 124, 1>>}, fv \in {<<FALSE, 1>>, <<TRUE, 2>>},
        s0 \in {0, 1}, dk \in {0, 1}, r1 \in {MaxScore - 1, MaxScore}}

Rows == {r \in RowsStream \cup RowsCausal \cup RowsLen : ScoresInRange(r)}

InitRow ==
    /\ GridOff
    /\ PipeOff
    /\ HostOff
    /\ ThreadOff
    /\ AddrOff
    /\ rin \in Rows
    /\ rpc = "loop"
    /\ iter = 1
    /\ m = [q \in 0 .. 3 |-> Sentinel]
    /\ d = [q \in 0 .. 3 |-> One]
    /\ RO = 0
    /\ soft = {}
    /\ clamped = {}
    /\ weighted = {}
    /\ lossy = FALSE
    /\ out = <<>>

NextRow == RowLoop \/ RowLast \/ RowFinalize

SpecRow == InitRow /\ [][NextRow]_vars

(***************************************************************************)
(* Properties of a row.  The softmax of the row is taken over the key      *)
(* positions j < kv_len, and j <= the query position under the causal      *)
(* mask; the score of key j is its accumulator times sm_scale, Q_scale and *)
(* the K_scale entry of the key.                                           *)
(***************************************************************************)
Valid(r, j) == j < r.kv_len /\ (r.causal => j <= RowOf(r))

\* Key tiles the row has been through.
TilesDone == IF rpc = "loop" THEN iter - 1 ELSE num_iterations(rin, rin.blk)

\* The scores of the keys 0 .. T * CTA_K - 1, the sentinel where not valid.
RefScores(r, T) ==
    SubSeq([x \in 1 .. (T * CTA_K) |->
                IF Valid(r, x - 1) THEN Score(r, x - 1) ELSE Sentinel],
           1, T * CTA_K)

RefMax(r, T) == MaxOf(RefScores(r, T), 1, T * CTA_K)

\* Sum of 2^(score - M) over the valid keys of the first T tiles.
RefD(r, T, M) ==
    LET sc == RefScores(r, T)
    IN  SumOf(SubSeq([x \in 1 .. (T * CTA_K) |-> ptx_exp2(sc[x] - M)], 1, T * CTA_K),
              1, T * CTA_K)

\* Sum of 2^(score - M) * V over the valid keys of the first T tiles.
RefAcc(r, T, M) ==
    LET sc == RefScores(r, T)
    IN  SumOf(SubSeq([x \in 1 .. (T * CTA_K) |-> ptx_exp2(sc[x] - M) * VElem(r, x - 1)],
                     1, T * CTA_K),
              1, T * CTA_K)

\* The same sum with every probability narrowed under the maximum of the
\* tiles up to its own, then carried over to M.
NarrowAcc(r, T, M) ==
    LET sc == RefScores(r, T)
        pm == SubSeq([t \in 1 .. T |-> RefMax(r, t)], 1, T)
    IN  SumOf(SubSeq([x \in 1 .. (T * CTA_K) |->
                         MulFx(RS_32_to_8(ptx_exp2(sc[x] - pm[((x - 1) \div CTA_K) + 1])),
                               ptx_exp2(pm[((x - 1) \div CTA_K) + 1] - M))
                         * VElem(r, x - 1)],
                     1, T * CTA_K),
              1, T * CTA_K)

\* Sum of 2^score over the valid keys: the softmax denominator.
RefDenominator(r, T) ==
    SumOf(SubSeq([x \in 1 .. (T * CTA_K) |->
                     IF Valid(r, x - 1) THEN 2 ^ Score(r, x - 1) ELSE 0],
                 1, T * CTA_K),
          1, T * CTA_K)

\* m, d and the lse of the row against the sums over its valid keys.
RowSums(r, T, mq, dq, done, o) ==
    LET M == RefMax(r, T)
        D == RefD(r, T, M)
    IN  /\ \A q \in 0 .. 3 : mq[q] = M
        /\ IF done THEN \A q \in 0 .. 3 : dq[q] = D
           ELSE dq[0] + dq[1] + dq[2] + dq[3] = D
        /\ done => /\ o.O.den = D
                   /\ o.lse.log2.log2_of * (2 ^ o.lse.plus)
                        = One * RefDenominator(r, T)

\* C1 as stated: after the last tile of a row, m is the largest unmasked
\* score, d the sum of 2^(score - m) and acc the sum of 2^(score - m) * V
\* over the unmasked scores, the row written is acc / d and exp2(lse) the
\* softmax denominator.
CexC1 ==
    rpc = "done" =>
        /\ RowSums(rin, TilesDone, m, d, TRUE, out)
        /\ RO = RefAcc(rin, TilesDone, m[0])
        /\ out.O.num = RefAcc(rin, TilesDone, m[0])

\* C1: after every tile of a row, m is the largest unmasked score so far
\* and d the sum of 2^(score - m) over the unmasked scores, whatever the
\* tiles; acc is the sum of the probabilities as narrowed to e4m3 in their
\* tile, times V; it is the sum of 2^(score - m) * V when no probability was
\* changed by the narrowing.  The row written is acc / d, times V_scale in
\* the fused kernel, and exp2(lse) is the softmax denominator.
ThmC1 ==
    (rpc \in {"loop", "norm", "done"} /\ TilesDone >= 1) =>
        /\ RowSums(rin, TilesDone, m, d, rpc = "done", out)
        /\ RO = NarrowAcc(rin, TilesDone, m[0])
        /\ ~lossy => RO = RefAcc(rin, TilesDone, m[0])
        /\ rpc = "done" =>
              out.O.num = IF rin.fused THEN RO * rin.v_scale ELSE RO

\* A row of two tiles whose largest score is in the second and is written.
WitC1 ==
    /\ rpc = "done"
    /\ TilesDone = 2
    /\ ~lossy
    /\ RO > 0
    /\ RefMax(rin, 1) < RefMax(rin, 2)

\* C2: under the causal mask only keys j <= the query position with
\* j < kv_len enter the softmax of a row unclamped, over all the tiles gone
\* through; every key of a tile before the last is <= the first query row of
\* the block, hence <= every row of the tile, and is < kv_len.
ThmC2 ==
    (rpc \in {"loop", "norm", "done"} /\ rin.causal) =>
        /\ \A j \in soft : j < rin.kv_len /\ j <= RowOf(rin)
        /\ \A t \in 0 .. (TilesDone - 1) :
              t # num_iterations(rin, rin.blk) - 1 =>
                  /\ (t + 1) * CTA_K - 1 <= bx(rin.blk) * CTA_Q
                  /\ (t + 1) * CTA_K <= rin.kv_len

\* A causal row done over two tiles whose key right of the diagonal, within
\* kv_len, had the largest accumulator and was clamped.
WitC2 ==
    /\ rpc = "done"
    /\ rin.causal
    /\ TilesDone = 2
    /\ \E j \in clamped : /\ j = RowOf(rin) + 1
                          /\ j < rin.kv_len
                          /\ RawScore(rin, j) > rin.s0
    /\ soft # {}

MaxPipeTiles == 3

Warps == 0 .. ((NUM_THREADS \div WARP_SIZE) - 1)

Bars == {"Q", "K", "V"}

\* The head dimensions a tensor map of Q or K can be made for: the row of
\* its box is head_dim bytes, and create_tensor_map_4D takes 32, 64 or 128.
BoxMinorSizes == {32, 64, 128}

\* Variant: the box of V is head_dim x head_dim.
BoxBytesSquareV(b, head_dim) ==
    IF b = "Q" THEN head_dim * CTA_Q
    ELSE IF b = "K" THEN head_dim * CTA_K
    ELSE head_dim * head_dim

\* Bytes of the box of the tensor map of Q, K, V: BlockMinorSize x
\* BlockMajorSize elements of one byte.
BoxBytes(b, head_dim) ==
    IF b = "Q" THEN head_dim * CTA_Q
    ELSE IF b = "K" THEN head_dim * CTA_K
    ELSE CTA_K * head_dim

ExpectWide(b, head_dim) ==
    IF b = "V" THEN 2 * (CTA_K * head_dim) ELSE (CTA_Q * head_dim) * 1

Expect(b, head_dim) ==
    IF b = "Q" THEN (CTA_Q * head_dim) * 1 ELSE (CTA_K * head_dim) * 1

NoBarrier == [phase |-> 0, pending |-> 0, tx |-> 0, count |-> 0]

init_barrier(thread_count) ==
    [phase |-> 0, pending |-> thread_count, tx |-> 0, count |-> thread_count]

PhaseComplete(x) ==
    IF x.pending = 0 /\ x.tx = 0
    THEN [x EXCEPT !.phase = @ + 1, !.pending = x.count]
    ELSE x

expect_bytes(x, bytes) ==
    PhaseComplete([x EXCEPT !.tx = @ + bytes, !.pending = @ - 1])

\* Variant: any completing transfer settles the bytes that were declared.
complete_tx_all(x, bytes) == PhaseComplete([x EXCEPT !.tx = 0])

complete_tx(x, bytes) == PhaseComplete([x EXCEPT !.tx = @ - bytes])

try_wait_any(x, kPhaseBit) == x.count > 0

try_wait(x, kPhaseBit) == x.count > 0 /\ (x.phase % 2) # kPhaseBit

load_async_4D(b, tile) == [bar |-> b, bytes |-> BoxBytes(b, pin.head_dim), tile |-> tile]

InLoop(w) == it[w] < pin.num_iterations

WaitBar(w) ==
    IF pc[w] = "waitQ" THEN "Q" ELSE IF pc[w] = "waitK" THEN "K" ELSE "V"

WaitTile(w) == IF pc[w] = "waitQ" THEN 0 ELSE it[w] - 1

InitPipe ==
    /\ GridOff
    /\ RowOff
    /\ HostOff
    /\ ThreadOff
    /\ AddrOff
    /\ pin \in [num_iterations : 1 .. MaxPipeTiles, head_dim : BoxMinorSizes]
    /\ pc = [w \in Warps |-> IF w = 0 THEN "init" ELSE "sync"]
    /\ it = [w \in Warps |-> 1]
    /\ ph = [w \in Warps |-> 1]
    /\ bar = [b \in Bars |-> NoBarrier]
    /\ flight = {}
    /\ committed = [w \in Warps |-> 0]
    /\ mmdone = 0
    /\ arrived = {}
    /\ passed = [w \in Warps |-> {}]
    /\ wrote = {}
    /\ broken = {}
    /\ landed = {}

InitBarriers ==
    /\ pc[0] = "init"
    /\ bar' = [b \in Bars |-> init_barrier(1)]
    /\ pc' = [pc EXCEPT ![0] = "sync"]
    /\ UNCHANGED <<pin, it, ph, flight, committed, mmdone, arrived, passed, wrote,
                   broken, landed, gvars, rvars, hvars, xvars, avars>>

SyncArrive(w) ==
    /\ pc[w] = "sync"
    /\ arrived' = arrived \cup {w}
    /\ pc' = [pc EXCEPT ![w] = "synced"]
    /\ UNCHANGED <<pin, it, ph, bar, flight, committed, mmdone, passed, wrote,
                   broken, landed, gvars, rvars, hvars, xvars, avars>>

SyncPass(w) ==
    /\ pc[w] = "synced"
    /\ arrived = Warps
    /\ pc' = [pc EXCEPT ![w] = IF w = 0 THEN "issue" ELSE "waitQ"]
    /\ UNCHANGED <<pin, it, ph, bar, flight, committed, mmdone, arrived, passed,
                   wrote, broken, landed, gvars, rvars, hvars, xvars, avars>>

IssuePrologue ==
    /\ pc[0] = "issue"
    /\ bar' = [b \in Bars |-> expect_bytes(bar[b], Expect(b, pin.head_dim))]
    /\ flight' = flight \cup {load_async_4D(b, 0) : b \in Bars}
    /\ pc' = [pc EXCEPT ![0] = "waitQ"]
    /\ UNCHANGED <<pin, it, ph, committed, mmdone, arrived, passed, wrote, broken,
                   landed, gvars, rvars, hvars, xvars, avars>>

WaitBarrier(w) ==
    /\ pc[w] \in {"waitQ", "waitK", "waitV"}
    /\ try_wait(bar[WaitBar(w)], IF pc[w] = "waitQ" THEN 0 ELSE ph[w])
    /\ passed' = [passed EXCEPT ![w] = @ \cup {<<WaitBar(w), WaitTile(w)>>}]
    /\ pc' = [pc EXCEPT ![w] = IF pc[w] = "waitQ" THEN "top"
                               ELSE IF pc[w] = "waitK" THEN "qk" ELSE "pv"]
    /\ UNCHANGED <<pin, it, ph, bar, flight, committed, mmdone, arrived, wrote,
                   broken, landed, gvars, rvars, hvars, xvars, avars>>

\* Variant: p is left as it is.
KeepParity(p) == p

\* p ^= 1
FlipParity(p) == (p + 1) % 2

LoopTop(w) ==
    /\ pc[w] = "top"
    /\ ph' = [ph EXCEPT ![w] = FlipParity(@)]
    /\ pc' = [pc EXCEPT ![w] = "waitK"]
    /\ UNCHANGED <<pin, it, bar, flight, committed, mmdone, arrived, passed, wrote,
                   broken, landed, gvars, rvars, hvars, xvars, avars>>

IssueMatmul(w) ==
    /\ pc[w] \in {"qk", "pv"}
    /\ committed' = [committed EXCEPT ![w] = @ + 1]
    /\ pc' = [pc EXCEPT ![w] = IF pc[w] = "qk" THEN "qkwait" ELSE "pvwait"]
    /\ UNCHANGED <<pin, it, ph, bar, flight, mmdone, arrived, passed, wrote, broken,
                   landed, gvars, rvars, hvars, xvars, avars>>

\* Variant: the group completes for a warp that committed it, whatever the
\* other warps have done.
GroupIssuedByOne == \E w \in Warps : committed[w] > mmdone

\* The next group of the warp group has been issued and committed by each
\* of its four warps.
GroupIssued == \A w \in Warps : committed[w] > mmdone

MatmulComplete ==
    /\ GroupIssued
    /\ mmdone' = mmdone + 1
    /\ UNCHANGED <<pin, pc, it, ph, bar, flight, committed, arrived, passed, wrote,
                   broken, landed, gvars, rvars, hvars, xvars, avars>>

\* Variant: the wait returns at once.
warpgroup_wait_none(w) == TRUE

\* warpgroup_wait<0>: no group the warp committed is outstanding.
warpgroup_wait(w) == mmdone >= committed[w]

WaitMatmul(w) ==
    /\ pc[w] \in {"qkwait", "pvwait"}
    /\ warpgroup_wait(w)
    /\ pc' = [pc EXCEPT ![w] =
                IF pc[w] = "qkwait"
                THEN IF InLoop(w) /\ w = 0 THEN "loadK" ELSE "waitV"
                ELSE IF ~InLoop(w) THEN "fin"
                ELSE IF w = 0 THEN "loadV" ELSE "top"]
    /\ it' = [it EXCEPT ![w] =
                IF pc[w] = "pvwait" /\ InLoop(w) /\ w # 0 THEN @ + 1 ELSE @]
    /\ UNCHANGED <<pin, ph, bar, flight, committed, mmdone, arrived, passed, wrote,
                   broken, landed, gvars, rvars, hvars, xvars, avars>>

Prefetch ==
    /\ pc[0] \in {"loadK", "loadV"}
    /\ LET b == IF pc[0] = "loadK" THEN "K" ELSE "V"
       IN  /\ bar' = [bar EXCEPT ![b] = expect_bytes(@, Expect(b, pin.head_dim))]
           /\ flight' = flight \cup {load_async_4D(b, it[0])}
    /\ pc' = [pc EXCEPT ![0] = IF pc[0] = "loadK" THEN "waitV" ELSE "top"]
    /\ it' = [it EXCEPT ![0] = IF pc[0] = "loadV" THEN @ + 1 ELSE @]
    /\ UNCHANGED <<pin, ph, committed, mmdone, arrived, passed, wrote, broken,
                   landed, gvars, rvars, hvars, xvars, avars>>

Finalize(w) ==
    /\ pc[w] = "fin"
    /\ wrote' = wrote \cup {w}
    /\ pc' = [pc EXCEPT ![w] = "done"]
    /\ UNCHANGED <<pin, it, ph, bar, flight, committed, mmdone, arrived, passed,
                   broken, landed, gvars, rvars, hvars, xvars, avars>>

Deliver ==
    \E x \in flight :
        /\ bar' = [bar EXCEPT ![x.bar] = complete_tx(@, x.bytes)]
        /\ flight' = flight \ {x}
        /\ landed' = landed \cup {<<x.bar, x.tile>>}
        /\ UNCHANGED <<pin, pc, it, ph, committed, mmdone, arrived, passed, wrote,
                       broken, gvars, rvars, hvars, xvars, avars>>

DropTransfer ==
    \E x \in flight :
        /\ flight' = flight \ {x}
        /\ broken' = broken \cup {<<x.bar, x.tile>>}
        /\ UNCHANGED <<pin, pc, it, ph, bar, committed, mmdone, arrived, passed,
                       wrote, landed, gvars, rvars, hvars, xvars, avars>>

ShortTransfer ==
    \E x \in flight :
        \E got \in {1, x.bytes \div 2, x.bytes - 1} :
            /\ bar' = [bar EXCEPT ![x.bar] = complete_tx(@, got)]
            /\ flight' = flight \ {x}
            /\ broken' = broken \cup {<<x.bar, x.tile>>}
            /\ UNCHANGED <<pin, pc, it, ph, committed, mmdone, arrived, passed,
                           wrote, landed, gvars, rvars, hvars, xvars, avars>>

WarpStep(w) ==
    \/ SyncArrive(w)
    \/ SyncPass(w)
    \/ WaitBarrier(w)
    \/ LoopTop(w)
    \/ IssueMatmul(w)
    \/ WaitMatmul(w)
    \/ Finalize(w)

Thread0Step == InitBarriers \/ IssuePrologue \/ Prefetch

NextPipeOk ==
    \/ InitBarriers
    \/ IssuePrologue
    \/ Prefetch
    \/ \E w \in Warps : SyncArrive(w)
    \/ \E w \in Warps : SyncPass(w)
    \/ \E w \in Warps : WaitBarrier(w)
    \/ \E w \in Warps : LoopTop(w)
    \/ \E w \in Warps : IssueMatmul(w)
    \/ \E w \in Warps : WaitMatmul(w)
    \/ \E w \in Warps : Finalize(w)
    \/ MatmulComplete
    \/ Deliver

NextPipe == NextPipeOk \/ DropTransfer \/ ShortTransfer

SpecPipe == InitPipe /\ [][NextPipe]_vars

SpecPipeFair ==
    /\ InitPipe
    /\ [][NextPipeOk]_vars
    /\ \A w \in Warps : WF_vars(WarpStep(w))
    /\ WF_vars(Thread0Step)
    /\ WF_vars(MatmulComplete)
    /\ WF_vars(Deliver)

(***************************************************************************)
(* Properties of the pipeline.                                             *)
(***************************************************************************)
AllWaits(n) ==
    {<<"Q", 0>>} \cup {<<b, t>> : b \in {"K", "V"}, t \in 0 .. (n - 1)}

PipeDone ==
    \A w \in Warps :
        /\ pc[w] = "done"
        /\ w \in wrote
        /\ passed[w] = AllWaits(pin.num_iterations)

\* C8: when every issued transfer completes with the byte count of its box,
\* every barrier wait of every warp returns and every warp of the block
\* passes the loop, the last tile and Finalize and writes its rows, under
\* every fair interleaving of the warps, the transfers and the matrix
\* multiplies.
ThmC8 == <>PipeDone

WitC8 ==
    /\ pin.num_iterations = MaxPipeTiles
    /\ PipeDone
    /\ flight = {}
    /\ \A b \in {"K", "V"} : bar[b].phase = MaxPipeTiles

\* C9: once a transfer is lost or delivers fewer bytes than were declared,
\* the phase of its barrier never completes, no warp returns from the wait
\* for it, and no warp reaches Finalize or writes an element of O or Lse.
ThmC9 ==
    \A e \in broken :
        /\ bar[e[1]].phase = e[2]
        /\ \A w \in Warps :
              /\ e \notin passed[w]
              /\ pc[w] \notin {"fin", "done"}
              /\ w \notin wrote

WitC9 ==
    \E e \in broken :
        /\ e[2] = MaxPipeTiles - 1
        /\ bar[e[1]].tx > 0
        /\ flight = {}
        /\ \A w \in Warps :
              /\ pc[w] \in {"waitK", "waitV"}
              /\ <<WaitBar(w), WaitTile(w)>> = e

(***************************************************************************)
(* SpecHost: one call of an entry point, with its tensors as the caller    *)
(* hands them over.  A tensor is its sizes, its strides, its element type  *)
(* and whether it is on the device.  h.fused tells the entry point:        *)
(* qk_int8_sv_f8_accum_f32_fuse_v_scale_attn_inst_buf takes value_scale,   *)
(* qk_int8_sv_f8_accum_f32_attn_inst_buf does not.                         *)
(***************************************************************************)
RECURSIVE Contig(_, _)
\* Strides of a contiguous tensor of the sizes sz, from axis i on.
Contig(sz, i) ==
    IF i > Len(sz) THEN <<>>
    ELSE LET rest == Contig(sz, i + 1)
         IN  <<IF i = Len(sz) THEN 1 ELSE rest[1] * sz[i + 1]>> \o rest

Tensor(sz, dtype) == [sizes |-> sz, strides |-> Contig(sz, 1), dtype |-> dtype, cuda |-> TRUE]

\* x.size(i), x.stride(i) with the axes counted from 0.
size(x, i) == x.sizes[i + 1]

stride(x, i) == x.strides[i + 1]

HostTensors(h) ==
    <<h.query, h.key, h.value, h.output, h.query_scale, h.key_scale>>
    \o (IF h.fused THEN <<h.value_scale>> ELSE <<>>)

\* Variant: the fused entry point checks value_scale in place of key_scale.
HostScalesInPlace(h) ==
    <<h.query_scale>> \o (IF h.fused THEN <<h.value_scale>> ELSE <<h.key_scale>>)

HostScales(h) ==
    <<h.query_scale, h.key_scale>> \o (IF h.fused THEN <<h.value_scale>> ELSE <<>>)

InSeq(q) == {q[i] : i \in 1 .. Len(q)}

CHECK_CUDA(x) == x.cuda

CHECK_LASTDIM_CONTIGUOUS(x) == Len(x.sizes) >= 1 /\ x.strides[Len(x.sizes)] = 1

CHECK_CONTIGUOUS(x) == x.strides = Contig(x.sizes, 1)

CHECK_DTYPE(x, dtype) == x.dtype = dtype

CHECK_DIMS(x, n) == Len(x.sizes) = n

CHECK_SHAPE(x, sz) == x.sizes = sz

\* The checks at the head of both entry points.
HeadChecks(h) ==
    /\ \A x \in InSeq(HostTensors(h)) : CHECK_CUDA(x)
    /\ \A x \in {h.query, h.key, h.value, h.output} : CHECK_LASTDIM_CONTIGUOUS(x)
    /\ \A x \in InSeq(HostScales(h)) : CHECK_CONTIGUOUS(x)
    /\ CHECK_DTYPE(h.query, "int8") /\ CHECK_DTYPE(h.key, "int8")
    /\ CHECK_DTYPE(h.value, "float8_e4m3fn")
    /\ \A x \in InSeq(HostScales(h)) : CHECK_DTYPE(x, "float32")
    /\ \A x \in {h.query, h.key, h.value, h.output} : CHECK_DIMS(x, 4)
    /\ \A x \in InSeq(HostScales(h)) : CHECK_DIMS(x, 3)

\* Variant: only the value 1 selects the second layout.
SeqAxisOne(h) == IF h.tensor_layout = 1 THEN 2 ELSE 1

\* The axis of the sequence and the axis of the heads in the branch of
\* if (tensor_layout == 0) ... else ... that is taken.
SeqAxis(h) == IF h.tensor_layout = 0 THEN 1 ELSE 2

HeadAxis(h) == IF h.tensor_layout = 0 THEN 2 ELSE 1

\* The locals the two branches on tensor_layout set.
HostLocals(h) ==
    LET sq == SeqAxis(h)
        hd == HeadAxis(h)
    IN  [batch_size |-> size(h.query, 0), head_dim |-> size(h.query, 3),
         qo_len |-> size(h.query, sq), kv_len |-> size(h.key, sq),
         num_qo_heads |-> size(h.query, hd), num_kv_heads |-> size(h.key, hd),
         stride_bz_q |-> stride(h.query, 0), stride_bz_k |-> stride(h.key, 0),
         stride_bz_v |-> stride(h.value, 0), stride_bz_o |-> stride(h.output, 0),
         stride_seq_q |-> stride(h.query, sq), stride_h_q |-> stride(h.query, hd),
         stride_seq_k |-> stride(h.key, sq), stride_h_k |-> stride(h.key, hd),
         stride_h_v |-> stride(h.value, hd), stride_d_v |-> stride(h.value, sq),
         stride_seq_o |-> stride(h.output, sq), stride_h_o |-> stride(h.output, hd)]

\* Variant: the shape of key is checked, that of output is not.
LayoutShapesKey(h) ==
    LET l == HostLocals(h) IN
    IF h.tensor_layout = 0
    THEN CHECK_SHAPE(h.key, <<l.batch_size, l.kv_len, l.num_kv_heads, l.head_dim>>)
    ELSE CHECK_SHAPE(h.key, <<l.batch_size, l.num_kv_heads, l.kv_len, l.head_dim>>)

\* CHECK_SHAPE of key and of output in the branch taken.
LayoutShapes(h) ==
    LET l == HostLocals(h) IN
    IF h.tensor_layout = 0
    THEN /\ CHECK_SHAPE(h.key, <<l.batch_size, l.kv_len, l.num_kv_heads, l.head_dim>>)
         /\ CHECK_SHAPE(h.output, <<l.batch_size, l.qo_len, l.num_qo_heads, l.head_dim>>)
    ELSE /\ CHECK_SHAPE(h.key, <<l.batch_size, l.num_kv_heads, l.kv_len, l.head_dim>>)
         /\ CHECK_SHAPE(h.output, <<l.batch_size, l.num_qo_heads, l.qo_len, l.head_dim>>)

\* The asserts on value in the branch taken.
LayoutAsserts(h) ==
    LET l == HostLocals(h) IN
    IF h.tensor_layout = 0
    THEN size(h.value, 1) = l.head_dim /\ size(h.value, 2) = l.num_kv_heads
    ELSE size(h.value, 2) = l.head_dim /\ size(h.value, 1) = l.num_kv_heads

\* The call as the rest of the wrapper sees it.
AsCall(h) ==
    LET l == HostLocals(h) IN
    [layout |-> h.tensor_layout, causal |-> h.is_causal, gran |-> h.qk_quant_gran,
     return_lse |-> h.return_lse, fused |-> h.fused, batch |-> l.batch_size,
     hq |-> l.num_qo_heads, hkv |-> l.num_kv_heads, qo_len |-> l.qo_len,
     kv_len |-> l.kv_len, head_dim |-> l.head_dim, v_len |-> size(h.value, 3)]

\* DISPATCH_PYTORCH_DTYPE_TO_CTYPE_FP16 on output.scalar_type().
DispatchDtypeFp16(h) == h.output.dtype \in {"float16", "bfloat16"}

\* CHECK_SHAPE of the scale tensors inside the dispatch.
ScaleShapes(h) ==
    LET c == AsCall(h) IN
    /\ CHECK_SHAPE(h.query_scale, <<c.batch, c.hq, QScaleLen(c)>>)
    /\ CHECK_SHAPE(h.key_scale, <<c.batch, c.hkv, KScaleLen(c)>>)
    /\ h.fused => CHECK_SHAPE(h.value_scale, <<c.batch, c.hkv, c.head_dim>>)

\* The three descriptors: sizes d1 .. d4 and strides handed to
\* create_tensor_map_4D.
TensorMaps(h) ==
    LET l == HostLocals(h) IN
    [Q |-> [dims |-> <<l.batch_size, l.num_qo_heads, l.qo_len, l.head_dim>>,
            strides |-> <<l.stride_bz_q, l.stride_h_q, l.stride_seq_q>>],
     K |-> [dims |-> <<l.batch_size, l.num_kv_heads, l.kv_len, l.head_dim>>,
            strides |-> <<l.stride_bz_k, l.stride_h_k, l.stride_seq_k>>],
     V |-> [dims |-> <<l.batch_size, l.num_kv_heads, l.head_dim, size(h.value, 3)>>,
            strides |-> <<l.stride_bz_v, l.stride_h_v, l.stride_d_v>>]]

MapOk(mp) == create_tensor_map_4D(mp.dims[1], mp.dims[2], mp.dims[3], mp.dims[4])

\* The launch: template arguments, grid, block, dynamic shared memory and
\* arguments of the kernel.
Launch(h) ==
    LET l == HostLocals(h) IN
    [head_dim |-> l.head_dim, gran |-> h.qk_quant_gran, causal |-> h.is_causal # 0,
     return_lse |-> h.return_lse # 0, fused |-> h.fused,
     gridDim |-> <<div_ceil(l.qo_len, CTA_Q), l.num_qo_heads, l.batch_size>>,
     stride_bz_o |-> l.stride_bz_o, stride_h_o |-> l.stride_h_o,
     stride_seq_o |-> l.stride_seq_o, qo_len |-> l.qo_len, kv_len |-> l.kv_len,
     num_kv_groups |-> l.num_qo_heads \div l.num_kv_heads,
     blockDim |-> NUM_THREADS,
     sMemSize |-> CTA_Q * l.head_dim + CTA_K * l.head_dim + CTA_K * l.head_dim,
     Q_scale |-> "query_scale", K_scale |-> "key_scale",
     V_scale |-> IF h.fused THEN "value_scale" ELSE "nullptr",
     O |-> "output", Lse |-> IF h.return_lse # 0 THEN "lse" ELSE "nullptr"]

\* Variant: more query heads than key heads will do.
RatioAtLeast(h) == HostLocals(h).num_qo_heads >= HostLocals(h).num_kv_heads

\* if (num_qo_heads % num_kv_heads != 0) throw std::invalid_argument
RatioOk(h) == HostLocals(h).num_qo_heads % HostLocals(h).num_kv_heads = 0

Stopped(outcome, effects) ==
    [outcome |-> outcome, effects |-> effects, lse |-> <<>>, maps |-> <<>>,
     kernel |-> <<>>]

\* The descriptors and the launch, after every check.
BuildAndLaunch(h) ==
    LET mp == TensorMaps(h) IN
    IF ~MapOk(mp.Q) THEN Stopped("abort", <<"lse">>)
    ELSE IF ~MapOk(mp.K) THEN Stopped("abort", <<"lse", "tma_map_Q">>)
    ELSE IF ~MapOk(mp.V) THEN Stopped("abort", <<"lse", "tma_map_Q", "tma_map_K">>)
    ELSE [outcome |-> "launched",
          effects |-> <<"lse", "tma_map_Q", "tma_map_K", "tma_map_V", "launch">>,
          lse |-> LseAlloc(AsCall(h)), maps |-> mp, kernel |-> Launch(h)]

\* Variant: every head dimension gets an instantiation.
DispatchedAnyHeadDim(h) == TRUE

\* DISPATCH_HEAD_DIM(head_dim, HEAD_DIM, ...) on the wrapper's head_dim.
DispatchedHeadDim(h) == DispatchHeadDim(AsCall(h))

\* An entry point from its first line to its return, throw or abort.
HostRun(h) ==
    IF ~HeadChecks(h) THEN Stopped("invalid_argument", <<>>)
    ELSE IF size(h.value, 0) # HostLocals(h).batch_size THEN Stopped("abort", <<>>)
    ELSE IF ~LayoutShapes(h) THEN Stopped("invalid_argument", <<>>)
    ELSE IF ~LayoutAsserts(h) THEN Stopped("abort", <<>>)
    ELSE IF ~RatioOk(h) THEN Stopped("invalid_argument", <<>>)
    ELSE IF ~DispatchedHeadDim(h) THEN Stopped("invalid_argument", <<"lse">>)
    ELSE IF ~DispatchQkQuantGran(AsCall(h)) THEN Stopped("invalid_argument", <<"lse">>)
    ELSE IF ~DispatchDtypeFp16(h) THEN Stopped("invalid_argument", <<"lse">>)
    ELSE IF ~ValuePadded(AsCall(h)) THEN Stopped("abort", <<"lse">>)
    ELSE IF ~ScaleShapes(h) THEN Stopped("invalid_argument", <<"lse">>)
    ELSE BuildAndLaunch(h)

(***************************************************************************)
(* Calls the host model draws.  A call is built from what the caller       *)
(* means, g (layout, entry point, granularity, flags, batch, heads,        *)
(* lengths, head_dim), with every tensor shaped as the wrapper demands for *)
(* g; query, key and output are views of buffers one row longer, so that   *)
(* no two axes share a stride.  Then up to two of the tensors are spoilt.  *)
(***************************************************************************)
Shape4(layout, b, h, sq, dm) ==
    IF layout = 0 THEN <<b, sq, h, dm>> ELSE <<b, h, sq, dm>>

View(buffer, sz, dtype) ==
    [sizes |-> sz, strides |-> Contig(buffer, 1), dtype |-> dtype, cuda |-> TRUE]

GoodCall(g) ==
    LET c == [gran |-> g.gran, qo_len |-> g.qo_len, kv_len |-> g.kv_len]
        v_len == div_ceil(g.kv_len, CTA_K) * CTA_K
    IN  [given |-> g, spoilt |-> {},
         fused |-> g.fused, tensor_layout |-> g.layout, is_causal |-> g.flags[1],
         qk_quant_gran |-> g.gran, return_lse |-> g.flags[2],
         query |-> View(Shape4(g.layout, g.batch, g.hq, g.qo_len + 1, g.head_dim),
                        Shape4(g.layout, g.batch, g.hq, g.qo_len, g.head_dim), "int8"),
         key |-> View(Shape4(g.layout, g.batch, g.hkv, g.kv_len + 1, g.head_dim),
                      Shape4(g.layout, g.batch, g.hkv, g.kv_len, g.head_dim), "int8"),
         value |-> Tensor(IF g.layout = 0 THEN <<g.batch, g.head_dim, g.hkv, v_len>>
                          ELSE <<g.batch, g.hkv, g.head_dim, v_len>>, "float8_e4m3fn"),
         output |-> View(Shape4(g.layout, g.batch, g.hq, g.qo_len + 1, g.head_dim),
                         Shape4(g.layout, g.batch, g.hq, g.qo_len, g.head_dim),
                         g.out_dtype),
         query_scale |-> Tensor(<<g.batch, g.hq, QScaleLen(c)>>, "float32"),
         key_scale |-> Tensor(<<g.batch, g.hkv, KScaleLen(c)>>, "float32"),
         value_scale |-> Tensor(<<g.batch, g.hkv, g.head_dim>>, "float32")]

Bump(sz, i) == [sz EXCEPT ![i] = @ + 1]

\* The call h with one tensor spoilt.
Spoil(h, f) ==
    LET x == CASE f = "q_dtype"  -> [h EXCEPT !.query.dtype = "float16"]
               [] f = "v_dtype"  -> [h EXCEPT !.value.dtype = "int8"]
               [] f = "ks_dtype" -> [h EXCEPT !.key_scale.dtype = "float16"]
               [] f = "o_host"   -> [h EXCEPT !.output.cuda = FALSE]
               [] f = "k_lastdim" -> [h EXCEPT !.key.strides[4] = 2]
               [] f = "qs_strides" -> [h EXCEPT !.query_scale.strides[1] = @ + 1]
               [] f = "q_dims"   -> [h EXCEPT !.query = Tensor(<<1>> \o @.sizes, "int8")]
               [] f = "ks_dims"  -> [h EXCEPT !.key_scale =
                                        Tensor(SubSeq(@.sizes, 2, 3), "float32")]
               [] f = "k_batch"  -> [h EXCEPT !.key.sizes = Bump(@, 1)]
               [] f = "k_dim"    -> [h EXCEPT !.key.sizes = Bump(@, 4)]
               [] f = "o_shape"  -> [h EXCEPT !.output.sizes = Bump(@, 2)]
               [] f = "v_batch"  -> [h EXCEPT !.value.sizes = Bump(@, 1)]
               [] f = "v_heads"  -> [h EXCEPT !.value.sizes = Bump(Bump(@, 2), 3)]
               [] f = "v_unpadded" -> [h EXCEPT !.value.sizes[4] = @ - 1]
               [] f = "qs_shape" -> [h EXCEPT !.query_scale =
                                        Tensor(Bump(@.sizes, 3), "float32")]
               [] f = "ks_shape" -> [h EXCEPT !.key_scale =
                                        Tensor(Bump(@.sizes, 3), "float32")]
               [] f = "vs_dtype" -> [h EXCEPT !.value_scale.dtype = "float16"]
               [] OTHER          -> [h EXCEPT !.value_scale =
                                        Tensor(Bump(@.sizes, 3), "float32")]
    IN  [x EXCEPT !.spoilt = @ \cup {f}]

Spoils ==
    {"q_dtype", "v_dtype", "ks_dtype", "o_host", "k_lastdim", "qs_strides", "q_dims",
     "ks_dims", "k_batch", "k_dim", "o_shape", "v_batch", "v_heads", "v_unpadded",
     "qs_shape", "ks_shape", "vs_dtype", "vs_shape"}

\* What the caller may mean: every layout value, both entry points, every
\* granularity, head counts with and without an exact ratio, head
\* dimensions with and without a specialization, output types.
HostGiven ==
    [layout : {0, 1, 2}, fused : BOOLEAN,
     gran : {"kPerBlock", "kPerWarp", "kPerThread", "other"},
     flags : {<<0, 0>>, <<1, 1>>}, batch : {2}, hq : {4}, hkv : {2, 3, 8},
     qo_len : {0, 1, CTA_Q + 1}, kv_len : {CTA_K + 1},
     head_dim : {32, 64, 96, 128}, out_dtype : {"float16", "bfloat16", "float32"}]

\* The calls that differ from a plain one in at most one respect.
HostPlain ==
    {g \in HostGiven :
        Cardinality({k \in 1 .. 5 :
                        CASE k = 1 -> g.gran \notin {"kPerWarp", "kPerThread"}
                          [] k = 2 -> g.hkv # 2
                          [] k = 3 -> g.qo_len = 0
                          [] k = 4 -> g.head_dim \notin {64, 128}
                          [] OTHER -> g.out_dtype = "float32"}) <= 1}

HostCalls ==
    {GoodCall(g) : g \in HostPlain}
    \cup {Spoil(GoodCall(g), f) : g \in {x \in HostPlain : x.flags[1] = 1}, f \in Spoils}
    \cup {Spoil(Spoil(GoodCall(g), f1), f2) :
            g \in {x \in HostPlain : x.flags[1] = 1 /\ x.layout < 2 /\ x.qo_len = 1
                                      /\ x.out_dtype = "float16"},
            f1 \in Spoils, f2 \in {"v_batch", "v_heads", "q_dtype"}}

InitHost ==
    /\ GridOff
    /\ RowOff
    /\ PipeOff
    /\ ThreadOff
    /\ AddrOff
    /\ hin \in HostCalls
    /\ hout = <<>>

\* The whole entry point.
HostEntry ==
    /\ hin # <<>>
    /\ hout = <<>>
    /\ hout' = HostRun(hin)
    /\ UNCHANGED <<hin, gvars, rvars, pvars, xvars, avars>>

NextHost == HostEntry

SpecHost == InitHost /\ [][NextHost]_vars

(***************************************************************************)
(* Properties of a call.  hin.given is what the caller meant.              *)
(***************************************************************************)
Returned == hout # <<>>

\* The asserts on the extents of value hold.
ValueAsserted(h) == size(h.value, 0) = size(h.query, 0) /\ LayoutAsserts(h)

BadRatio(h) == h.given.hq % h.given.hkv # 0

Built == Returned /\ \E i \in 1 .. Len(hout.effects) : hout.effects[i] # "lse"

\* The shapes the scale tensors are to have for the query_scale and
\* key_scale of the call, by granularity.
ScaleShapeFor(h, which) ==
    LET per == IF h.qk_quant_gran = "kPerWarp" THEN <<4, 1>> ELSE <<4 * 8, 4>>
    IN  IF which = "query_scale"
        THEN <<h.given.batch, h.given.hq, ((h.given.qo_len + 63) \div 64) * per[1]>>
        ELSE <<h.given.batch, h.given.hkv, ((h.given.kv_len + 127) \div 128) * per[2]>>

\* C12: a call gets to the descriptors and the launch only with the
\* granularity per-warp or per-thread and query_scale and key_scale of the
\* shape of that granularity; with any other shape it fails with nothing
\* built or launched.
ThmC12 ==
    Returned =>
        /\ Built =>
              /\ hin.qk_quant_gran \in {"kPerWarp", "kPerThread"}
              /\ hin.query_scale.sizes = ScaleShapeFor(hin, "query_scale")
              /\ hin.key_scale.sizes = ScaleShapeFor(hin, "key_scale")
        /\ (hin.spoilt \cap {"qs_shape", "ks_shape", "ks_dims"} # {}) =>
              hout.outcome \notin {"launched"} /\ ~Built

\* A per-thread call whose key_scale alone is off by one has failed after
\* the lse allocation.
WitC12 ==
    /\ Returned
    /\ hin.spoilt = {"ks_shape"}
    /\ hin.qk_quant_gran = "kPerThread"
    /\ hin.given.qo_len = CTA_Q + 1
    /\ hout.outcome = "invalid_argument"
    /\ hout.effects = <<"lse">>

\* A kernel was launched by the call.
Launched ==
    /\ Returned
    /\ \/ hout.outcome = "launched"
       \/ hout.kernel # <<>>
       \/ \E i \in 1 .. Len(hout.effects) : hout.effects[i] = "launch"

\* C13: a call whose granularity is neither per-warp nor per-thread fails
\* and launches no kernel; only those two granularities reach a launch.
ThmC13 ==
    Returned =>
        /\ hin.qk_quant_gran \notin {"kPerWarp", "kPerThread"} =>
              /\ hout.outcome \in {"invalid_argument", "abort"}
              /\ ~Launched
        /\ Launched => hin.qk_quant_gran \in {"kPerWarp", "kPerThread"}

\* A per-block call of the fused entry point, all else in order, has failed.
WitC13 ==
    /\ Returned
    /\ hin.qk_quant_gran = "kPerBlock"
    /\ hin.spoilt = {}
    /\ hin.fused
    /\ hin.given.head_dim = 64
    /\ hout.outcome = "invalid_argument"
    /\ ~Launched

\* C14: a kernel is launched only for head_dim 64 or 128; a call with any
\* other head_dim fails at the dispatch and launches nothing.
ThmC14 ==
    Returned =>
        /\ Launched => size(hin.query, 3) \in {64, 128}
        /\ size(hin.query, 3) \notin {64, 128} =>
              /\ ~Launched
              /\ hout.kernel = <<>>
              /\ hin.spoilt = {} => hout.outcome = "invalid_argument"

\* A call with head_dim 32, which the descriptors would take, has failed at
\* the dispatch.
WitC14 ==
    /\ Returned
    /\ hin.spoilt = {}
    /\ size(hin.query, 3) = 32
    /\ hin.qk_quant_gran = "kPerWarp"
    /\ hout.outcome = "invalid_argument"
    /\ hout.effects = <<"lse">>

\* The call breaks a precondition of one of the kinds: element type,
\* dimensionality, trailing axis, shape of key, output or a scale, head-count
\* ratio, granularity, head dimension.
Violates(h) ==
    \/ h.spoilt \cap {"q_dtype", "v_dtype", "ks_dtype", "q_dims", "ks_dims",
                      "k_lastdim", "k_batch", "k_dim", "o_shape",
                      "qs_shape", "ks_shape"} # {}
    \/ h.fused /\ "vs_shape" \in h.spoilt
    \/ h.output.dtype \notin {"float16", "bfloat16"}
    \/ BadRatio(h)
    \/ h.qk_quant_gran \notin {"kPerWarp", "kPerThread"}
    \/ size(h.query, 3) \notin {64, 128}

\* C15: a call that breaks a precondition fails with no descriptor built
\* and no kernel launched, and a call that ends in the invalid-argument
\* failure has built and launched nothing, so output is as it was.
ThmC15 ==
    Returned =>
        /\ Violates(hin) =>
              /\ hout.outcome \in {"invalid_argument", "abort"}
              /\ ~Built /\ ~Launched
              /\ hout.maps = <<>> /\ hout.kernel = <<>>
        /\ hout.outcome = "invalid_argument" =>
              /\ \A i \in 1 .. Len(hout.effects) : hout.effects[i] = "lse"
              /\ hout.maps = <<>> /\ hout.kernel = <<>>

\* A call whose output alone has a wrong shape has failed with nothing done.
WitC15 ==
    /\ Returned
    /\ hin.spoilt = {"o_shape"}
    /\ ~BadRatio(hin)
    /\ hin.qk_quant_gran = "kPerThread"
    /\ size(hin.query, 3) = 128
    /\ hout.outcome = "invalid_argument"
    /\ hout.effects = <<>>

\* Offset of the element at the index ix of the tensor x.
OffsetIn(x, ix) ==
    ix[1] * x.strides[1] + ix[2] * x.strides[2] + ix[3] * x.strides[3]
        + ix[4] * x.strides[4]

\* Offset of the element (b, hh, sq, dm) by the strides st = <<batch, head,
\* sequence>> handed on, the last axis having stride 1.
OffsetBy(st, b, hh, sq, dm) == b * st[1] + hh * st[2] + sq * st[3] + dm

\* The strides handed on for x are those of its batch, head and sequence
\* axes, and they address the logical element (b, hh, sq, dm) where x of
\* the layout lay holds it.
AddressesAs(st, x, lay) ==
    /\ st = IF lay = 0 THEN <<x.strides[1], x.strides[3], x.strides[2]>>
                       ELSE <<x.strides[1], x.strides[2], x.strides[3]>>
    /\ \A b \in {0, 1}, hh \in {0, 1, 3}, sq \in {0, 1, CTA_Q}, dm \in {0, 1} :
           OffsetBy(st, b, hh, sq, dm) = OffsetIn(x, Shape4(lay, b, hh, sq, dm))

\* C16: layout 0 takes the sequence length from axis 1 and the head count
\* from axis 2, every other value the heads from axis 1 and the sequence
\* from axis 2; the strides handed to the descriptors and the kernel are
\* those of the same axes; and the same logical tensors given in another
\* layout yield the same qo_len, kv_len, head counts, grid and addressing
\* of the logical elements.
ThmC16 ==
    Launched =>
        LET lay == IF hin.tensor_layout = 0 THEN 0 ELSE 1
            sa == IF hin.tensor_layout = 0 THEN 1 ELSE 2
            ha == IF hin.tensor_layout = 0 THEN 2 ELSE 1
            k == hout.kernel
            mp == hout.maps
        IN  /\ k.qo_len = size(hin.query, sa) /\ k.kv_len = size(hin.key, sa)
            /\ mp.Q.dims[2] = size(hin.query, ha) /\ mp.K.dims[2] = size(hin.key, ha)
            /\ mp.Q.dims[3] = k.qo_len /\ mp.K.dims[3] = k.kv_len
            /\ AddressesAs(mp.Q.strides, hin.query, lay)
            /\ AddressesAs(mp.K.strides, hin.key, lay)
            /\ AddressesAs(<<k.stride_bz_o, k.stride_h_o, k.stride_seq_o>>,
                           hin.output, lay)
            /\ mp.V.strides = <<stride(hin.value, 0), stride(hin.value, ha),
                                stride(hin.value, sa)>>
            /\ hin.spoilt = {} =>
                  \A other \in {0, 1, 2} :
                     LET o == HostRun(GoodCall([hin.given EXCEPT !.layout = other]))
                     IN  /\ o.outcome = "launched"
                         /\ o.kernel.qo_len = k.qo_len /\ k.qo_len = hin.given.qo_len
                         /\ o.kernel.kv_len = k.kv_len /\ k.kv_len = hin.given.kv_len
                         /\ o.kernel.gridDim = k.gridDim
                         /\ o.kernel.num_kv_groups = k.num_kv_groups
                         /\ o.maps.Q.dims = mp.Q.dims /\ o.maps.K.dims = mp.K.dims
                         /\ o.maps.V.dims = mp.V.dims
                         /\ mp.Q.dims[2] = hin.given.hq /\ mp.K.dims[2] = hin.given.hkv
                         /\ o.lse = hout.lse
                         /\ (other # 0 /\ hin.tensor_layout # 0) =>
                                o.maps = mp /\ o.kernel = k

\* A call of two query tiles with tensor_layout 2 has been launched.
WitC16 ==
    /\ Launched
    /\ hin.spoilt = {}
    /\ hin.tensor_layout = 2
    /\ hin.given.qo_len = CTA_Q + 1
    /\ hout.kernel.gridDim = <<2, 4, 2>>
    /\ stride(hin.query, 1) # stride(hin.query, 2)

(***************************************************************************)
(* Ordering of the transfers, the barrier waits and the matrix multiplies  *)
(* of one block (SpecPipe, transfers that fail included).                  *)
(***************************************************************************)
\* The tile the warp w works on.
TileOf(w) == it[w] - 1

\* C17: a warp issues or has pending a matrix multiply on the Q and K
\* scratch, or on the V scratch, of tile t only when the transfer of tile t
\* into that scratch has delivered all its bytes; and a wait that returned
\* was for a phase that has completed by a transfer fully delivered.
ThmC17 ==
    \A w \in Warps :
        /\ \A e \in passed[w] : e \in landed /\ bar[e[1]].phase >= e[2] + 1
        /\ pc[w] \in {"qk", "qkwait"} =>
              /\ {<<"Q", 0>>, <<"K", TileOf(w)>>} \subseteq landed
              /\ {<<"Q", 0>>, <<"K", TileOf(w)>>} \subseteq passed[w]
        /\ pc[w] \in {"pv", "pvwait"} =>
              /\ <<"V", TileOf(w)>> \in landed
              /\ <<"V", TileOf(w)>> \in passed[w]

\* A warp has its multiply on the last value tile under way while another
\* still waits for that tile.
WitC17 ==
    /\ pin.num_iterations = MaxPipeTiles
    /\ \E w \in Warps : pc[w] = "pvwait" /\ TileOf(w) = MaxPipeTiles - 1
    /\ \E w \in Warps : pc[w] = "waitV" /\ TileOf(w) = MaxPipeTiles - 1
    /\ <<"V", MaxPipeTiles - 1>> \in landed

\* The matmul group that reads tile t of the slot of barrier b: the groups
\* of a warp alternate between QK on the K slot and PV on the V slot.
GroupOf(b, t) == IF b = "K" THEN 2 * t + 1 ELSE 2 * t + 2

\* The warp w is about to issue, or has issued and not yet completed, a
\* multiply that reads the slot of barrier b.
Reads(w, b) ==
    IF b = "K"
    THEN pc[w] = "qk" \/ (pc[w] = "qkwait" /\ mmdone < committed[w])
    ELSE pc[w] = "pv" \/ (pc[w] = "pvwait" /\ mmdone < committed[w])

\* C18: the transfer of key tile N+1 is issued only after the multiply on
\* key tile N has been committed by every warp and has completed, likewise
\* for the value tiles; and while a warp's multiply reads a slot no transfer
\* into that slot is under way and no later tile has been put into it.
ThmC18 ==
    /\ \A x \in flight :
          x.tile >= 1 =>
              /\ mmdone >= GroupOf(x.bar, x.tile - 1)
              /\ \A w \in Warps : committed[w] >= GroupOf(x.bar, x.tile - 1)
    /\ \A w \in Warps, b \in {"K", "V"} :
          Reads(w, b) =>
              /\ \A x \in flight : x.bar # b
              /\ \A e \in landed \cup broken : e[1] = b => e[2] <= TileOf(w)

\* The last key tile is on its way while a warp has not yet returned from
\* the wait for the multiply on the tile before it, and another warp has the
\* multiply on the value tile pending.
WitC18 ==
    \E x \in flight :
        /\ x.bar = "K"
        /\ x.tile = MaxPipeTiles - 1
        /\ \E w \in Warps : pc[w] = "qkwait" /\ TileOf(w) = x.tile - 1
        /\ \E w \in Warps : pc[w] = "pv" /\ Reads(w, "V")

\* The warp w is in a wait on barrier_K or barrier_V.
Waiting(w) == pc[w] \in {"waitK", "waitV"}

\* C19: for tile t, counted from 0, every warp waits on barrier_K and on
\* barrier_V with the parity t mod 2; while it waits, t or t + 1 phases of
\* the barrier have completed, and its wait can return only when the
\* (t + 1)-th has, by the full delivery of tile t, so never on the
\* completion of the transfer of tile t - 1.
ThmC19 ==
    \A w \in Warps :
        Waiting(w) =>
            LET t == TileOf(w)
                x == bar[WaitBar(w)]
            IN  /\ ph[w] = t % 2
                /\ x.phase \in {t, t + 1}
                /\ x.phase = t => (x.phase % 2) = ph[w]
                /\ (x.phase % 2) # ph[w] =>
                      x.phase = t + 1 /\ <<WaitBar(w), t>> \in landed

\* A warp waits for the last key tile, which is on its way, on a barrier
\* whose latest completed phase is that of the tile before.
WitC19 ==
    \E w \in Warps :
        /\ pc[w] = "waitK"
        /\ TileOf(w) = MaxPipeTiles - 1
        /\ bar["K"].phase = TileOf(w)
        /\ <<"K", TileOf(w) - 1>> \in landed
        /\ \E x \in flight : x.bar = "K" /\ x.tile = TileOf(w)

\* The transfer of tile t on barrier b has been declared and issued.
Issued(b, t) ==
    \/ \E x \in flight : x.bar = b /\ x.tile = t
    \/ <<b, t>> \in landed \cup broken

\* C20: once thread 0 has declared and issued the transfer of tile t + 1 on
\* barrier_K or barrier_V, each of the four warps of the block has returned
\* from its wait for tile t on that barrier; so no warp waits for a tile
\* while a later one has been issued on the same barrier.
ThmC20 ==
    /\ \A b \in {"K", "V"}, t \in 0 .. (MaxPipeTiles - 1) :
          Issued(b, t + 1) => \A w \in Warps : <<b, t>> \in passed[w]
    /\ \A w \in Warps :
          Waiting(w) =>
              \A t \in 0 .. MaxPipeTiles : t > TileOf(w) => ~Issued(WaitBar(w), t)

\* The last value tile has just been issued, thread 0 is ahead at the top
\* of the last tile and another warp has not yet returned from the wait for
\* the multiply on the value tile before.
WitC20 ==
    /\ \E x \in flight : x.bar = "V" /\ x.tile = MaxPipeTiles - 1
    /\ pc[0] \in {"top", "waitK"} /\ TileOf(0) = MaxPipeTiles - 1
    /\ \E w \in Warps : pc[w] = "pvwait" /\ TileOf(w) = MaxPipeTiles - 2
    /\ \A w \in Warps : <<"V", MaxPipeTiles - 2>> \in passed[w]

(***************************************************************************)
(* SpecThread: one thread of one block, statement by statement.            *)
(*                                                                         *)
(* Program(x) is the sequence of statements the thread x.tid of the block  *)
(* x.blk executes, in the order of the kernel's text with its loops        *)
(* unrolled.  A statement is [op, a, n, d, t]: a names the barrier or the  *)
(* matrix multiply, n is an offset or an index, d is ScaleD of a wgmma,    *)
(* and t is the key/value tile the statement belongs to (-1 outside the    *)
(* tiles).  The thread executes them one by one; xlog keeps each statement *)
(* with the phase bit, the bracket, the outstanding groups and the         *)
(* register tiles it found.                                                *)
(***************************************************************************)
MaxBx == 3

Stmt(op, a, n, sd, t) == [op |-> op, a |-> a, n |-> n, d |-> sd, t |-> t]

\* Variant: the transfer is issued, then its bytes are declared.
IssueLoadFirst(x, b, off, t) ==
    IF x.tid = 0
    THEN <<Stmt("load", b, off, 0, t), Stmt("expect", b, CTA_K * x.head_dim, 0, t)>>
    ELSE <<>>

\* if (threadIdx.x == 0) { expect_bytes<...>(&barrier); load_async_4D(...); }
\* of the loop, for the tile t at the sequence offset off.
IssueOf(x, b, off, t) ==
    IF x.tid = 0
    THEN <<Stmt("expect", b, CTA_K * x.head_dim, 0, t), Stmt("load", b, off, 0, t)>>
    ELSE <<>>

\* Variant: the offset of the tile in hand.
TileOffsetPrev(it1) == (it1 - 1) * CTA_K

\* iter * CTA_K, the sequence offset of the tile a prefetch asks for.
TileOffset(it1) == it1 * CTA_K

\* Variant: the last tile prefetches as the others do.
LoopIssueAlways(x, b, it1, last) == IssueOf(x, b, TileOffset(it1), it1)

\* The prefetch of the loop body; the unrolled last tile has none.
LoopIssue(x, b, it1, last) ==
    IF last THEN <<>> ELSE IssueOf(x, b, TileOffset(it1), it1)

\* The three expect_bytes and the three load_async_4D before the loop.
PrologueIssue(x) ==
    IF x.tid = 0
    THEN <<Stmt("expect", "Q", CTA_Q * x.head_dim, 0, 0),
           Stmt("expect", "K", CTA_K * x.head_dim, 0, 0),
           Stmt("expect", "V", CTA_K * x.head_dim, 0, 0),
           Stmt("load", "Q", bx(x.blk) * CTA_Q, 0, 0),
           Stmt("load", "K", 0, 0, 0),
           Stmt("load", "V", 0, 0, 0)>>
    ELSE <<>>

\* Variant: every instruction of the chain accumulates.
ChainNoReset(kind, count, t) ==
    [i \in 1 .. count |-> Stmt("wgmma", kind, (i - 1) * 32, 1, t)]

\* The wgmma instructions of one product: ScaleD = 0 at offset 0, then
\* ScaleD = 1 at k_it * 32 (v_it * 32).
Chain(kind, count, t) ==
    [i \in 1 .. count |-> Stmt("wgmma", kind, (i - 1) * 32, IF i = 1 THEN 0 ELSE 1, t)]

\* Variant: the group is committed and not waited for.
BracketNoWait(kind, count, t) ==
    <<Stmt("arrive", kind, 0, 0, t)>> \o Chain(kind, count, t)
        \o <<Stmt("commit", kind, 0, 0, t)>>

\* warpgroup_arrive, the chain, warpgroup_commit_batch, warpgroup_wait<0>.
Bracket(kind, count, t) ==
    <<Stmt("arrive", kind, 0, 0, t)>> \o Chain(kind, count, t)
        \o <<Stmt("commit", kind, 0, 0, t), Stmt("wait0", kind, 0, 0, t)>>

\* Variant: the mask is applied after update_mdo.
SoftmaxMaskLate(last, t) ==
    <<Stmt("cvt", "RS", 0, 0, t), Stmt("update_mdo", "", 0, 0, t)>>
        \o (IF last THEN <<Stmt("mask", "", 0, 0, t)>> ELSE <<>>)
        \o <<Stmt("sum_d", "", 0, 0, t), Stmt("RS_32_to_8", "", 0, 0, t)>>

\* From the conversion of RS to RS_32_to_8; the masking is in the last
\* tile only.
SoftmaxOf(last, t) ==
    <<Stmt("cvt", "RS", 0, 0, t)>>
        \o (IF last THEN <<Stmt("mask", "", 0, 0, t)>> ELSE <<>>)
        \o <<Stmt("update_mdo", "", 0, 0, t), Stmt("sum_d", "", 0, 0, t),
             Stmt("RS_32_to_8", "", 0, 0, t)>>

\* Variant: the output is normalised with every tile.
TileEndNormalized(x, it1, last) ==
    <<Stmt("accumulate", "RO_temp", 0, 0, it1 - 1),
      Stmt("normalize_d", "", 0, 0, it1 - 1)>>
        \o LoopIssue(x, "V", it1, last)

\* RO += RO_temp and the prefetch of the next value tile.
TileEnd(x, it1, last) ==
    <<Stmt("accumulate", "RO_temp", 0, 0, it1 - 1)>> \o LoopIssue(x, "V", it1, last)

\* Variant: the next key tile is fetched after the softmax update.
BodyKeyLate(x, it1, last) ==
    <<Stmt("flip", "", 0, 0, it1 - 1), Stmt("k_scale", "K", it1 - 1, 0, it1 - 1),
      Stmt("wait", "K", 0, 0, it1 - 1)>>
        \o Bracket("QK", x.head_dim \div 32, it1 - 1)
        \o SoftmaxOf(last, it1 - 1)
        \o LoopIssue(x, "K", it1, last)
        \o <<Stmt("wait", "V", 0, 0, it1 - 1)>>
        \o Bracket("PV", CTA_K \div 32, it1 - 1)
        \o TileEnd(x, it1, last)

\* One tile: the body of the loop for iter < num_iterations, and the
\* unrolled block after it (last) with iter = num_iterations.
Body(x, it1, last) ==
    <<Stmt("flip", "", 0, 0, it1 - 1), Stmt("k_scale", "K", it1 - 1, 0, it1 - 1),
      Stmt("wait", "K", 0, 0, it1 - 1)>>
        \o Bracket("QK", x.head_dim \div 32, it1 - 1)
        \o LoopIssue(x, "K", it1, last)
        \o SoftmaxOf(last, it1 - 1)
        \o <<Stmt("wait", "V", 0, 0, it1 - 1)>>
        \o Bracket("PV", CTA_K \div 32, it1 - 1)
        \o TileEnd(x, it1, last)

RECURSIVE LoopBodies(_, _)
\* for (iter = from; iter < num_iterations; iter++)
LoopBodies(x, from) ==
    IF from < num_iterations(x.ka, x.blk)
    THEN Body(x, from, FALSE) \o LoopBodies(x, from + 1)
    ELSE <<>>

Program(x) ==
    <<Stmt("init_mdo", "m_d", Sentinel, 1, -1), Stmt("init_RO", "RO", 0, 0, -1)>>
        \o (IF x.tid = 0
            THEN <<Stmt("init_barrier", "Q", 1, 0, -1), Stmt("init_barrier", "K", 1, 0, -1),
                   Stmt("init_barrier", "V", 1, 0, -1)>>
            ELSE <<>>)
        \o <<Stmt("sync", "", 0, 0, -1)>>
        \o PrologueIssue(x)
        \o <<Stmt("wait", "Q", 0, 1, 0), Stmt("set_p", "", 1, 0, -1)>>
        \o LoopBodies(x, 1)
        \o Body(x, num_iterations(x.ka, x.blk), TRUE)
        \o <<Stmt("normalize_d", "", 0, 0, -1), Stmt("store", "O", 0, 0, -1)>>

ThreadInputs ==
    [tid : {0, 1, NUM_THREADS - 1},
     ka : [causal : BOOLEAN,
           kv_len : {1, CTA_K, CTA_K + 1, MaxPipeTiles * CTA_K - 1, MaxPipeTiles * CTA_K}],
     blk : {<<b, 0, 0>> : b \in 0 .. MaxBx},
     head_dim : HeadDims]

InitThread ==
    /\ GridOff
    /\ RowOff
    /\ PipeOff
    /\ HostOff
    /\ AddrOff
    /\ xin \in ThreadInputs
    /\ xpc = 1
    /\ xp = 0
    /\ xreg = [QK |-> {}, PV |-> {}]
    /\ xopen = FALSE
    /\ xgroups = 0
    /\ xlog = <<>>

\* The next statement is one of ops.
AtStmt(ops) ==
    /\ xin # <<>>
    /\ xpc \in 1 .. Len(Program(xin))
    /\ Program(xin)[xpc].op \in ops

\* The statement is executed: it is logged with what it found.
Executed ==
    LET st == Program(xin)[xpc] IN
    /\ xpc' = xpc + 1
    /\ xlog' = Append(xlog, [op |-> st.op, a |-> st.a, n |-> st.n, d |-> st.d,
                             t |-> st.t, p |-> IF st.op = "wait" /\ st.d = 1 THEN st.n ELSE xp,
                             open |-> xopen, pending |-> xgroups, regs |-> xreg])
    /\ UNCHANGED <<xin, gvars, rvars, pvars, hvars, avars>>

ThreadSetup ==
    /\ AtStmt({"init_mdo", "init_RO", "init_barrier", "sync", "set_p", "flip", "k_scale"})
    /\ xp' = LET st == Program(xin)[xpc]
             IN  IF st.op = "set_p" THEN st.n
                 ELSE IF st.op = "flip" THEN FlipParity(xp) ELSE xp
    /\ Executed
    /\ UNCHANGED <<xreg, xopen, xgroups>>

ThreadIssue ==
    /\ AtStmt({"expect", "load"})
    /\ Executed
    /\ UNCHANGED <<xp, xreg, xopen, xgroups>>

ThreadWait ==
    /\ AtStmt({"wait"})
    /\ Executed
    /\ UNCHANGED <<xp, xreg, xopen, xgroups>>

ThreadMatmul ==
    /\ AtStmt({"arrive", "wgmma", "commit", "wait0"})
    /\ LET st == Program(xin)[xpc] IN
       /\ xopen' = IF st.op = "arrive" THEN TRUE
                   ELSE IF st.op = "commit" THEN FALSE ELSE xopen
       /\ xgroups' = IF st.op = "commit" THEN xgroups + 1
                     ELSE IF st.op = "wait0" THEN 0 ELSE xgroups
       /\ xreg' = IF st.op = "wgmma"
                  THEN [xreg EXCEPT ![st.a] = IF st.d = 0 THEN {<<st.t, st.n>>}
                                              ELSE @ \cup {<<st.t, st.n>>}]
                  ELSE xreg
    /\ Executed
    /\ UNCHANGED xp

ThreadSoftmax ==
    /\ AtStmt({"cvt", "mask", "update_mdo", "sum_d", "RS_32_to_8", "accumulate",
               "normalize_d", "store"})
    /\ Executed
    /\ UNCHANGED <<xp, xreg, xopen, xgroups>>

NextThread ==
    \/ ThreadSetup
    \/ ThreadIssue
    \/ ThreadWait
    \/ ThreadMatmul
    \/ ThreadSoftmax

SpecThread == InitThread /\ [][NextThread]_vars

(***************************************************************************)
(* Properties of the order of the statements of a thread.                  *)
(***************************************************************************)
\* The positions up to upto of the log at which the statement op on a stands.
At(op, a, upto) ==
    {j \in 1 .. Min(upto, Len(xlog)) : xlog[j].op = op /\ xlog[j].a = a}

\* The positions up to upto at which one of ops stands.
AtOps(ops, upto) == {j \in 1 .. Min(upto, Len(xlog)) : xlog[j].op \in ops}

\* The thread has executed its last statement.
ThreadDone == xin # <<>> /\ xpc = Len(Program(xin)) + 1

\* C21: only thread 0 initialises the barriers, declares bytes and issues
\* transfers; a thread has passed __syncthreads, and thread 0 has before
\* that initialised the three barriers, when it executes its first expect,
\* transfer or wait; and before every transfer the bytes of that transfer
\* have been declared on its barrier.
ThmC21 ==
    \A i \in 1 .. Len(xlog) :
        /\ xlog[i].op \in {"init_barrier", "expect", "load"} => xin.tid = 0
        /\ xlog[i].op \in {"expect", "load", "wait"} => AtOps({"sync"}, i - 1) # {}
        /\ (xlog[i].op = "sync" /\ xin.tid = 0) =>
              \A b \in Bars : At("init_barrier", b, i - 1) # {}
        /\ xlog[i].op = "init_barrier" => AtOps({"sync"}, i - 1) = {}
        /\ xlog[i].op = "load" =>
              Cardinality(At("expect", xlog[i].a, i - 1))
                  = Cardinality(At("load", xlog[i].a, i - 1)) + 1

\* Thread 0 of a block of the largest number of tiles has run to its end.
WitC21 ==
    /\ ThreadDone
    /\ xin.tid = 0
    /\ num_iterations(xin.ka, xin.blk) = MaxPipeTiles
    /\ Cardinality(At("load", "K", Len(xlog))) = MaxPipeTiles

\* Transfers issued on the barrier b that no wait of the thread has yet
\* been for.
Outstanding(b) ==
    Cardinality(At("load", b, Len(xlog))) - Cardinality(At("wait", b, Len(xlog)))

\* C22: at every point of thread 0's execution the transfers it has issued
\* on barrier_K, and on barrier_V, exceed its waits on that barrier by 0 or
\* by 1; barrier_Q has one transfer and one wait, with parity 0; and when
\* the thread has finished every transfer has been waited for.
ThmC22 ==
    (xin # <<>> /\ xin.tid = 0) =>
        /\ \A b \in Bars : Outstanding(b) \in {0, 1}
        /\ Cardinality(At("load", "Q", Len(xlog))) <= 1
        /\ \A i \in At("wait", "Q", Len(xlog)) : xlog[i].p = 0
        /\ ThreadDone =>
              /\ \A b \in Bars : Outstanding(b) = 0
              /\ Cardinality(At("load", "Q", Len(xlog))) = 1
              /\ \A b \in {"K", "V"} :
                    Cardinality(At("load", b, Len(xlog)))
                        = num_iterations(xin.ka, xin.blk)

\* Thread 0 has the last key tile on its way and has waited for every value
\* tile issued so far.
WitC22 ==
    /\ xin # <<>> /\ xin.tid = 0
    /\ Cardinality(At("load", "K", Len(xlog))) = MaxPipeTiles
    /\ Outstanding("K") = 1
    /\ Outstanding("V") = 0
    /\ Outstanding("Q") = 0

\* The positions of the log, in order, at which op on a stands.
RECURSIVE Picked(_, _, _)
Picked(op, a, upto) ==
    IF upto = 0 THEN <<>>
    ELSE IF xlog[upto].op = op /\ xlog[upto].a = a
         THEN Append(Picked(op, a, upto - 1), upto)
         ELSE Picked(op, a, upto - 1)

\* The sequence offset of the latest transfer on b issued before position i.
SlotAt(b, i) ==
    LET ls == Picked("load", b, i - 1) IN xlog[ls[Len(ls)]].n

\* C23: the k-th transfer on barrier_K and the k-th on barrier_V are from
\* the sequence offset (k - 1) * 128, the k-th multiply of each kind is on
\* the tile k - 1, the multiply on tile t finds the transfer from t * 128 in
\* its slot and the K_scale entry read before it is entry t; and a thread
\* that has finished has had num_iterations tiles, thread 0 having issued
\* num_iterations transfers on each of the two barriers, none of them in
\* the last tile.
ThmC23 ==
    xin # <<>> =>
        /\ \A b \in {"K", "V"} :
              LET ls == Picked("load", b, Len(xlog))
              IN  \A k \in 1 .. Len(ls) : xlog[ls[k]].n = (k - 1) * 128
        /\ \A a \in {"QK", "PV"} :
              LET cs == Picked("commit", a, Len(xlog))
                  ws == Picked("wait", IF a = "QK" THEN "K" ELSE "V", Len(xlog))
              IN  /\ \A k \in 1 .. Len(cs) : xlog[cs[k]].t = k - 1
                  /\ Len(cs) <= Len(ws) /\ Len(ws) <= Len(cs) + 1
                  /\ \A k \in 1 .. Len(cs) : ws[k] < cs[k] /\ xlog[ws[k]].t = k - 1
        /\ LET ks == Picked("k_scale", "K", Len(xlog))
           IN  \A k \in 1 .. Len(ks) : xlog[ks[k]].n = k - 1 /\ xlog[ks[k]].t = k - 1
        /\ xin.tid = 0 =>
              \A i \in 1 .. Len(xlog) :
                  xlog[i].op = "wgmma" =>
                      SlotAt(IF xlog[i].a = "QK" THEN "K" ELSE "V", i) = xlog[i].t * 128
        /\ ThreadDone =>
              LET n == num_iterations(xin.ka, xin.blk) IN
              /\ \A a \in {"QK", "PV"} : Len(Picked("commit", a, Len(xlog))) = n
              /\ xin.tid = 0 =>
                    \A b \in {"K", "V"} :
                       /\ Len(Picked("load", b, Len(xlog))) = n
                       /\ \A i \in At("load", b, Len(xlog)) :
                             \E j \in At("wait", b, Len(xlog)) : j > i

\* Thread 0 has finished three tiles, the last key transfer from offset 256.
WitC23 ==
    /\ ThreadDone
    /\ xin.tid = 0
    /\ Len(Picked("load", "V", Len(xlog))) = MaxPipeTiles
    /\ \E i \in At("load", "K", Len(xlog)) : xlog[i].n = (MaxPipeTiles - 1) * 128

\* The key tiles whose QK group the thread has committed.
Traversed == {xlog[i].t : i \in At("commit", "QK", Len(xlog))}

\* The key tiles that hold a position below the sequence length.
AllTiles == 0 .. (div_ceil(xin.ka.kv_len, 128) - 1)

\* C24: the thread of block bx traverses only key tiles t with
\* t * 128 < min(kv_len, (bx + 1) * 64) under the causal mask and with
\* t * 128 < kv_len otherwise, a finished thread has traversed all of them,
\* and no other tile holds a key position j that the mask keeps for a row i
\* of the block's query tile.
ThmC24 ==
    xin # <<>> =>
        LET lim  == IF xin.ka.causal /\ (bx(xin.blk) + 1) * 64 < xin.ka.kv_len
                    THEN (bx(xin.blk) + 1) * 64
                    ELSE xin.ka.kv_len
            due  == {t \in AllTiles : t * 128 < lim}
            rows == (bx(xin.blk) * 64) .. (bx(xin.blk) * 64 + 63)
        IN  /\ Traversed \subseteq due
            /\ ThreadDone =>
                  /\ Traversed = due
                  /\ \A t \in AllTiles \ Traversed :
                        \A j \in (t * 128) .. (t * 128 + 127) :
                            \A i \in rows : is_out_of_bounds(xin.ka, j, i)

\* A finished thread of a causal block that traversed two key tiles of
\* three.
WitC24 ==
    /\ ThreadDone
    /\ xin.ka.causal
    /\ xin.ka.kv_len = MaxPipeTiles * CTA_K
    /\ Traversed = {0, 1}
    /\ AllTiles \ Traversed # {}

\* The first key position of the last tile the row goes through.
FinalFirst(r) == (num_iterations(r, r.blk) - 1) * CTA_K

\* C25: once the last tile of a row is through, the first key of that tile
\* was left unclamped (it is below kv_len and, under the causal mask, not
\* right of the first row of the block's query tile), and the running
\* maximum of every lane of the row is the score of an unclamped key and
\* not the sentinel.
ThmC25 ==
    rpc \in {"norm", "done"} =>
        /\ rin.kv_len >= 1
        /\ FinalFirst(rin) < rin.kv_len
        /\ rin.causal => FinalFirst(rin) <= bx(rin.blk) * CTA_Q
        /\ FinalFirst(rin) \in soft
        /\ FinalFirst(rin) \notin clamped
        /\ \A q \in 0 .. 3 :
              /\ m[q] # Sentinel
              /\ \E j \in soft : m[q] = Score(rin, j)

\* A causal row, the first of its block, whose only unclamped key of the
\* last tile is the first key of the tile.
WitC25 ==
    /\ rpc = "done"
    /\ rin.causal
    /\ TilesDone = 2
    /\ RowOf(rin) = FinalFirst(rin)
    /\ FinalFirst(rin) + 1 < rin.kv_len
    /\ {j \in soft : j >= FinalFirst(rin)} = {FinalFirst(rin)}

\* The positions before i at which op stands for tile t.
Earlier(op, t, i) == {j \in 1 .. (i - 1) : xlog[j].op = op /\ xlog[j].t = t}

\* C26: within a tile, the masking is in the last tile only, follows the
\* conversion of the scores and precedes update_mdo, which the last tile
\* does not run without it; update_mdo, which rescales RO, precedes
\* RO += RO_temp of the tile; and RS_32_to_8 follows update_mdo, which
\* exponentiates, and precedes the arrive and every wgmma of the tile's PV
\* product.
ThmC26 ==
    xin # <<>> =>
        \A i \in 1 .. Len(xlog) :
            LET e == xlog[i]
                n == num_iterations(xin.ka, xin.blk)
            IN  /\ e.op = "mask" =>
                      /\ e.t = n - 1
                      /\ Earlier("cvt", e.t, i) # {}
                      /\ Earlier("update_mdo", e.t, i) = {}
                /\ e.op = "update_mdo" =>
                      /\ Earlier("update_mdo", e.t, i) = {}
                      /\ Earlier("accumulate", e.t, i) = {}
                      /\ e.t = n - 1 => Cardinality(Earlier("mask", e.t, i)) = 1
                /\ e.op = "accumulate" =>
                      /\ Cardinality(Earlier("update_mdo", e.t, i)) = 1
                      /\ Cardinality(Earlier("RS_32_to_8", e.t, i)) = 1
                /\ e.op = "RS_32_to_8" =>
                      /\ Earlier("update_mdo", e.t, i) # {}
                      /\ \A j \in Earlier("arrive", e.t, i) \cup Earlier("wgmma", e.t, i) :
                            xlog[j].a = "QK"
                /\ (e.op \in {"arrive", "wgmma"} /\ e.a = "PV") =>
                      Cardinality(Earlier("RS_32_to_8", e.t, i)) = 1

\* A thread has finished three tiles, the last of them masked.
WitC26 ==
    /\ ThreadDone
    /\ Cardinality(AtOps({"update_mdo"}, Len(xlog))) = MaxPipeTiles
    /\ Cardinality(AtOps({"mask"}, Len(xlog))) = 1
    /\ xin.tid = NUM_THREADS - 1

\* The positions before i at which op on a stands for tile t.
EarlierOn(op, a, t, i) == {j \in Earlier(op, t, i) : xlog[j].a = a}

\* C27: thread 0 issues the transfer of key tile t >= 1 after the wait<0>
\* on the QK group of tile t - 1 and before the conversion and update_mdo
\* of tile t - 1, and the transfer of value tile t >= 1 after RO += RO_temp
\* of tile t - 1 and before the wait on barrier_K of tile t; every tile
\* before the last has issued both when the next begins.
ThmC27 ==
    (xin # <<>> /\ xin.tid = 0) =>
        \A i \in 1 .. Len(xlog) :
            LET e == xlog[i] IN
            /\ (e.op = "load" /\ e.a = "K" /\ e.t >= 1) =>
                  /\ EarlierOn("wait0", "QK", e.t - 1, i) # {}
                  /\ Earlier("cvt", e.t - 1, i) = {}
                  /\ Earlier("update_mdo", e.t - 1, i) = {}
            /\ (e.op = "load" /\ e.a = "V" /\ e.t >= 1) =>
                  /\ Earlier("accumulate", e.t - 1, i) # {}
                  /\ EarlierOn("wait", "K", e.t, i) = {}
            /\ (e.op = "update_mdo" /\ e.t < num_iterations(xin.ka, xin.blk) - 1) =>
                  Cardinality(EarlierOn("load", "K", e.t + 1, i)) = 1
            /\ (e.op = "wait" /\ e.a = "K" /\ e.t >= 1) =>
                  /\ Cardinality(EarlierOn("load", "V", e.t, i)) = 1
                  /\ Cardinality(EarlierOn("load", "K", e.t, i)) = 1

\* Thread 0 is at the wait on barrier_K of the third tile.
WitC27 ==
    /\ xin # <<>>
    /\ xin.tid = 0
    /\ xlog # <<>>
    /\ xlog[Len(xlog)].op = "wait"
    /\ xlog[Len(xlog)].a = "K"
    /\ xlog[Len(xlog)].t = MaxPipeTiles - 1

\* The state of the kernel's state machine a statement belongs to, for a
\* block of n tiles: 0 Init, 1 Prologue load, 2 Wait Q, 3 Pipeline loop,
\* 4 Epilogue, 5 Finalize.
PhaseOf(e, n) ==
    IF e.op \in {"init_mdo", "init_RO", "init_barrier", "sync"} THEN 0
    ELSE IF e.op \in {"normalize_d", "store"} THEN 5
    ELSE IF e.op = "set_p" \/ (e.op = "wait" /\ e.a = "Q") THEN 2
    ELSE IF e.op \in {"expect", "load"} THEN (IF e.a = "Q" \/ e.t = 0 THEN 1 ELSE 3)
    ELSE IF e.op = "mask" \/ e.t = n - 1 THEN 4
    ELSE 3

\* C28: a thread starts with m = -5000000, d = 1.0 and RO = 0, thread 0
\* initialises the three barriers before they are used, and the statements
\* of a thread run through Init, Prologue load, Wait Q,
\* Pipeline loop, Epilogue and Finalize in this order and never back; with
\* n = num_iterations the loop has n - 1 rounds and the epilogue one tile;
\* normalize_d runs once, after RO += RO_temp of the last tile, and a thread
\* that has finished has run it.
ThmC28 ==
    xin # <<>> =>
        LET n == num_iterations(xin.ka, xin.blk)
            L == Len(xlog)
        IN  /\ \A i \in 1 .. L : \A j \in i .. L : PhaseOf(xlog[i], n) <= PhaseOf(xlog[j], n)
            /\ L >= 1 => xlog[1].op = "init_mdo" /\ xlog[1].n = -5000000 /\ xlog[1].d = 1
            /\ L >= 2 => xlog[2].op = "init_RO" /\ xlog[2].n = 0
            /\ Cardinality(AtOps({"init_mdo", "init_RO"}, L)) <= 2
            /\ \A i \in AtOps({"expect", "load", "wait"}, L) :
                  xin.tid = 0 => Cardinality(AtOps({"init_barrier"}, i)) = 3
            /\ Cardinality(AtOps({"normalize_d"}, L)) <= 1
            /\ Cardinality({i \in AtOps({"flip"}, L) : PhaseOf(xlog[i], n) = 3}) <= n - 1
            /\ Cardinality({i \in AtOps({"flip"}, L) : PhaseOf(xlog[i], n) = 4}) <= 1
            /\ \A i \in AtOps({"normalize_d"}, L) :
                  /\ Cardinality(AtOps({"accumulate"}, i)) = n
                  /\ Earlier("accumulate", n - 1, i) # {}
                  /\ AtOps({"accumulate", "update_mdo", "flip"}, L) \subseteq 1 .. i
            /\ ThreadDone =>
                  /\ {PhaseOf(xlog[i], n) : i \in 1 .. L}
                        = (IF xin.tid = 0 THEN {0, 1, 2, 4, 5} ELSE {0, 2, 4, 5})
                             \cup (IF n > 1 THEN {3} ELSE {})
                  /\ Cardinality({i \in AtOps({"flip"}, L) : PhaseOf(xlog[i], n) = 3}) = n - 1
                  /\ Cardinality({i \in AtOps({"flip"}, L) : PhaseOf(xlog[i], n) = 4}) = 1
                  /\ Cardinality(AtOps({"normalize_d"}, L)) = 1

\* A thread has finished a block of three tiles: two rounds of the loop,
\* the epilogue and normalize_d.
WitC28 ==
    /\ ThreadDone
    /\ xin.tid = 1
    /\ Cardinality(AtOps({"flip"}, Len(xlog))) = MaxPipeTiles
    /\ Cardinality(AtOps({"normalize_d"}, Len(xlog))) = 1

\* The contraction indices tile t has contributed to a set of results, each
\* wgmma being of depth 32 (m64nNk32).
Covered(res, t) == UNION {(c[2]) .. (c[2] + 31) : c \in {x \in res : x[1] = t}}

\* The wgmma statements before position i of the product kind of tile t.
ChainAt(kind, t, i) == EarlierOn("wgmma", kind, t, i)

\* C29: the QK product of a tile is head_dim / 32 wgmma instructions (2 or
\* 4) and the PV product CTA_K / 32 = 4; the k-th of a chain is at operand
\* offset (k - 1) * 32, the first with ScaleD = 0 and the others with
\* ScaleD = 1; the scores the conversion reads and RO_temp as added to RO
\* hold the whole contraction range 0 .. head_dim - 1 (0 .. 127 for PV) of
\* the tile and nothing of another tile.
ThmC29 ==
    xin # <<>> =>
        \A i \in 1 .. Len(xlog) :
            LET e == xlog[i] IN
            /\ e.op = "wgmma" =>
                  /\ e.n = 32 * Cardinality(ChainAt(e.a, e.t, i))
                  /\ e.d = (IF e.n = 0 THEN 0 ELSE 1)
            /\ e.op = "commit" =>
                  Cardinality(ChainAt(e.a, e.t, i))
                      = (IF e.a = "QK" THEN xin.head_dim \div 32 ELSE 4)
            /\ e.op = "cvt" =>
                  /\ Cardinality(e.regs.QK) \in {2, 4}
                  /\ \A c \in e.regs.QK : c[1] = e.t
                  /\ Covered(e.regs.QK, e.t) = 0 .. (xin.head_dim - 1)
            /\ e.op = "accumulate" =>
                  /\ Cardinality(e.regs.PV) = 4
                  /\ \A c \in e.regs.PV : c[1] = e.t
                  /\ Covered(e.regs.PV, e.t) = 0 .. (CTA_K - 1)

\* A thread adds RO_temp of the third tile, head_dim = 128: four
\* instructions in each of the two chains of the tile.
WitC29 ==
    /\ xin # <<>>
    /\ xin.head_dim = 128
    /\ xlog # <<>>
    /\ xlog[Len(xlog)].op = "accumulate"
    /\ xlog[Len(xlog)].t = MaxPipeTiles - 1
    /\ Cardinality(ChainAt("QK", MaxPipeTiles - 1, Len(xlog))) = 4
    /\ Cardinality(ChainAt("PV", MaxPipeTiles - 1, Len(xlog))) = 4

\* C30: a wgmma is executed with a warpgroup_arrive before it and no
\* warpgroup_commit_batch between the two; a commit closes what an arrive
\* opened; when a thread converts the scores, adds RO_temp to RO, declares
\* bytes or issues a transfer, every group it has committed has been waited
\* for with warpgroup_wait<0>; and a thread never has more than one
\* committed group that it has not waited for.
ThmC30 ==
    xin # <<>> =>
        /\ xgroups \in {0, 1}
        /\ ThreadDone => xgroups = 0 /\ ~xopen
        /\ \A i \in 1 .. Len(xlog) :
              LET e == xlog[i] IN
              /\ e.pending \in {0, 1}
              /\ e.op = "wgmma" => e.open /\ e.pending = 0
              /\ e.op = "arrive" => ~e.open /\ e.pending = 0
              /\ e.op = "commit" =>
                    /\ e.open
                    /\ e.pending = 0
                    /\ ChainAt(e.a, e.t, i) # {}
                    /\ i < Len(xlog) => xlog[i + 1].op = "wait0"
              /\ e.op = "wait0" => e.pending = 1 /\ ~e.open
              /\ e.op \in {"cvt", "accumulate", "expect", "load", "mask", "update_mdo",
                           "RS_32_to_8", "store"} =>
                    e.pending = 0 /\ ~e.open
              /\ (e.op \in {"expect", "load"} /\ e.t >= 1) =>
                    Cardinality(AtOps({"commit"}, i)) = Cardinality(AtOps({"wait0"}, i))
              /\ e.op \in {"cvt", "accumulate"} =>
                    /\ Cardinality(AtOps({"commit"}, i)) = Cardinality(AtOps({"wait0"}, i))
                    /\ \E j \in 1 .. (i - 1) :
                          /\ xlog[j].op = "wait0"
                          /\ xlog[j].t = e.t
                          /\ xlog[j].a = (IF e.op = "cvt" THEN "QK" ELSE "PV")

\* Thread 0 has committed the PV group of the second tile and not yet
\* waited for it.
WitC30 ==
    /\ xin # <<>>
    /\ xin.tid = 0
    /\ xgroups = 1
    /\ xlog # <<>>
    /\ xlog[Len(xlog)].op = "commit"
    /\ xlog[Len(xlog)].a = "PV"
    /\ xlog[Len(xlog)].t = 1

(***************************************************************************)
(* Scale entries of the grid.                                              *)
(***************************************************************************)
\* The Q_scale entry of thread tid of block blk as the tensor (batch, heads,
\* entries per head) counts it.
QEntry(c, blk, tid) ==
    LET tile == (batch_id(blk) * c.hq + head_id(blk)) * div_ceil(c.qo_len, 64) + bx(blk)
    IN  IF c.gran = "kPerWarp" THEN tile * 4 + warp_idx(tid)
        ELSE (tile * 4 + warp_idx(tid)) * 8 + (lane_id(tid) \div 4)

\* The K_scale entry of thread tid for key tile t.
KEntry(c, blk, tid, t) ==
    LET tile == (batch_id(blk) * c.hkv + KvHead(c, head_id(blk))) * div_ceil(c.kv_len, 128) + t
    IN  IF c.gran = "kPerWarp" THEN tile ELSE tile * 4 + (lane_id(tid) % 4)

\* The threads of a block that share a Q_scale entry.
QGroup(c, blk, tid) ==
    IF c.gran = "kPerWarp" THEN <<blk, warp_idx(tid), 0>>
    ELSE <<blk, warp_idx(tid), lane_id(tid) \div 4>>

\* The kernel arguments under the other granularity.
OtherGran(ka) ==
    [ka EXCEPT !.gran = IF ka.gran = "kPerWarp" THEN "kPerThread" ELSE "kPerWarp"]

\* C31: in a launched kernel every thread reads the Q_scale entry
\* ((b * qo_heads + h) * ceil(qo_len / 64) + bx) * 4 + warp, times 8 plus
\* lane / 4 under per-thread granularity, and for tile t the K_scale entry
\* (b * kv_heads + kvh) * ceil(kv_len / 128) + t, times 4 plus lane % 4 under
\* per-thread granularity; two groups (block, warp) resp. (block, warp,
\* lane / 4) of the blocks that ran never share a Q_scale entry; and the
\* loads, the stores, the number of tiles and the V_scale reads of a block
\* are those of the other granularity, the stride per tile being 1 or 4.
ThmC31 ==
    \A b \in ran :
        /\ \A tid \in Threads :
              /\ q_scale_idx(kargs, b, tid) = QEntry(call, b, tid)
              /\ \A t \in Tiles(kargs, b) :
                    KScaleRead(kargs, b, tid, t) = KEntry(call, b, tid, t)
        /\ {x[3] : x \in {y \in sreads[b] : y[1] = "Q"}}
              = {QEntry(call, b, tid) : tid \in Threads}
        /\ {<<x[2], x[3]>> : x \in {y \in sreads[b] : y[1] = "K"}}
              = {<<t, KEntry(call, b, tid, t)>> : t \in Tiles(kargs, b), tid \in Threads}
        /\ Cardinality({QEntry(call, b2, tid) : b2 \in ran, tid \in Threads})
              = Cardinality({QGroup(call, b2, tid) : b2 \in ran, tid \in Threads})
        /\ k_scale_advance_offset(kargs) = (IF call.gran = "kPerWarp" THEN 1 ELSE 4)
        /\ BlockLoads(OtherGran(kargs), b) = loads[b]
        /\ BlockStores(OtherGran(kargs), b, 0, NUM_THREADS - 1).seen = O[b]
        /\ num_iterations(OtherGran(kargs), b) = num_iterations(kargs, b)
        /\ {x \in BlockScaleReads(OtherGran(kargs), b) : x[1] = "V"}
              = {x \in sreads[b] : x[1] = "V"}

\* Two blocks of a per-thread call have run, one of them not the first of
\* its head, with a second key tile.
WitC31 ==
    /\ call.gran = "kPerThread"
    /\ Cardinality(ran) = 2
    /\ \E b \in ran : /\ bx(b) >= 1
                      /\ \E x \in sreads[b] : x[1] = "K" /\ x[2] >= 1

\* The tile in hand of the row taken through the body of the loop, and
\* through the unrolled last step with no register masked.
AsInLoop(t) ==
    TileStep(rin, t, LoopScores(rin, t),
             [q \in 0 .. 3 |-> rin.sm_scale * dequant_scale(rin, t, q)], m, d, RO)

AsInLast(t) ==
    TileStep(rin, t, LastScores(rin, t, {}), [q \in 0 .. 3 |-> rin.sm_scale], m, d, RO)

\* C32: with positive scales, a tile taken through the loop body (raw
\* accumulators, sm_scale * dequant_scale handed to update_mdo) and through
\* the last step (accumulators times dequant_scale, sm_scale handed on)
\* leaves the same m, d and RO from the same registers, the score of key j
\* being its accumulator times sm_scale * Q_scale * K_scale of its tile in
\* both; and after the last tile m is the largest such score over the keys
\* of all the tiles and d the sum of 2^(score - m) over them.
ThmC32 ==
    /\ (rpc = "loop" /\ rin.sm_scale > 0 /\ rin.q_scale > 0) =>
          LET t == Min(iter, num_iterations(rin, rin.blk)) - 1
              lp == AsInLoop(t)
              ls == AsInLast(t)
              raw == LoopScores(rin, t)
              deq == LastScores(rin, t, {})
              fold == SubSeq([q \in 1 .. 4 |-> rin.sm_scale * dequant_scale(rin, t, q - 1)],
                             1, 4)
          IN  /\ lp.m = ls.m
              /\ lp.d = ls.d
              /\ lp.RO = ls.RO
              /\ \A n \in Regs :
                    /\ raw[n] * fold[RegLane(n) + 1] = Score(rin, KeyOf(rin, t, n))
                    /\ deq[n] * rin.sm_scale = Score(rin, KeyOf(rin, t, n))
    /\ (rpc \in {"norm", "done"} /\ TilesDone >= 2) =>
          \A q \in 0 .. 3 :
              /\ \A j \in soft : Score(rin, j) <= m[q]
              /\ \E j \in soft : Score(rin, j) = m[q]
              /\ d[0] + d[1] + d[2] + d[3]
                    = (IF rpc = "done" THEN 4 ELSE 1) * RefD(rin, TilesDone, m[q])

\* A row is through two tiles, the first scaled by 1 in the loop and the
\* second by 2 in the last step, and its largest score is of the first.
WitC32 ==
    /\ rpc = "norm"
    /\ TilesDone = 2
    /\ dequant_scale(rin, 0, 0) = 1
    /\ dequant_scale(rin, 1, 0) = 2
    /\ RefMax(rin, 1) = RefMax(rin, 2)
    /\ RefMax(rin, 1) > 0

(***************************************************************************)
(* The fragment layout: register k of fragment fk (fv) of lane l of warp w *)
(* holds the element (TileRow, TileCol) of the 64 x 128 score tile, and of *)
(* the 64 x head_dim output tile.                                          *)
(***************************************************************************)
TileRow(w, l, k) == w * 16 + (l \div 4) + 8 * ((k % 4) \div 2)

TileCol(l, fk, k) == fk * 16 + 2 * (l % 4) + 8 * (k \div 4) + (k % 2)

\* C33: (warp, lane, fk, k) -> (TileRow, TileCol) maps 128 threads x 8 x 8
\* registers one to one onto the 64 x 128 tile; the masking loop takes
\* register k of a thread at that row and column (from the first row of the
\* block and the first key of the last tile); d[fq][0] sums registers of the
\* lane's row r and d[fq][1] registers of row r + 8; the writeback puts
\* register k of RO[fq][fv] at row TileRow and column TileCol of the output
\* tile under the guard of that row; and the lse entry a lane writes is that
\* of the row of the d and m it takes it from.
ThmC33 ==
    \A b \in ran :
        LET row0 == bx(b) * CTA_Q
            key0 == (num_iterations(kargs, b) - 1) * CTA_K
        IN  /\ {<<q_idx(b, tid, 0, k) - row0, k_idx(kargs, b, tid, fk, k) - key0>> :
                    tid \in Threads, fk \in 0 .. (num_tiles_k - 1), k \in 0 .. 7}
                  = (0 .. (CTA_Q - 1)) \X (0 .. (CTA_K - 1))
            /\ \A tid \in Threads :
                  LET w == warp_idx(tid)
                      l == lane_id(tid)
                  IN  /\ \A k \in 0 .. 7 :
                            /\ q_idx(b, tid, 0, k) = row0 + TileRow(w, l, k)
                            /\ \A fk \in 0 .. (num_tiles_k - 1) :
                                  k_idx(kargs, b, tid, fk, k) = key0 + TileCol(l, fk, k)
                      /\ \A kk \in 0 .. 1 : \A x \in 1 .. 4 :
                            /\ row0 + TileRow(w, l, DRegs(kk)[x]) = DRow(b, tid, 0, kk)
                            /\ DRow(b, tid, 0, kk) = row0 + w * 16 + (l \div 4) + 8 * kk
                      /\ {DRegs(0)[x] : x \in 1 .. 4} = {0, 1, 4, 5}
                      /\ {DRegs(1)[x] : x \in 1 .. 4} = {2, 3, 6, 7}
                      /\ \A j \in 0 .. 3 : \A e \in 0 .. 1 :
                            /\ StoreGuard(kargs, b, tid, 0, j)
                                  <=> row0 + TileRow(w, l, 2 * j + e) < kargs.qo_len
                            /\ \A fv \in 0 .. (num_tiles_v(kargs.head_dim) - 1) :
                                  StoreAddr(O_lane_ptr(kargs, b, tid), kargs.stride_seq_o,
                                            0, fv, j, e)
                                     = RowBase(kargs, b, row0 + TileRow(w, l, 2 * j + e))
                                       + TileCol(l, fv, 2 * j + e)
                      /\ \A x \in LseStore(kargs, b, tid) :
                            /\ x \in Lse[b]
                            /\ x[2] = lse_idx(b, tid)
                            /\ x[2] = row0 + TileRow(w, l, 2 * (l % 4))
                            /\ x[1] = LseOffset(call, b, x[2])

\* The second block of a head has run and has stored its row of the output
\* and its lse entry.
WitC33 ==
    \E b \in ran : /\ bx(b) = 1
                    /\ O[b] # {}
                    /\ Lse[b] # {}
                    /\ call.head_dim = 128

\* The registers of RO a fused kernel multiplies: <<tid, fv, k>>.
RORegs(ka) ==
    IF ka.fused
    THEN Threads \X (0 .. (num_tiles_v(ka.head_dim) - 1)) \X (0 .. 7)
    ELSE {}

\* C34: in a fused kernel register k of RO[fq][fv] of a thread is multiplied
\* by the V_scale entry (batch, floor(head / num_kv_groups), c) where c is
\* the output column the register is stored to, for all 8 registers of every
\* thread, and the entries the block reads are those of its columns; a
\* kernel that is not fused reads no V_scale entry and multiplies nothing.
ThmC34 ==
    \A b \in ran :
        /\ \A x \in RORegs(kargs) :
              LET tid == x[1]
                  fv == x[2]
                  k == x[3]
                  col == TileCol(lane_id(tid), fv, k)
                  r == bx(b) * CTA_Q + TileRow(warp_idx(tid), lane_id(tid), k)
              IN  /\ VScaleOf(kargs, b, tid, fv, k)
                        = (batch_id(b) * call.hkv + KvHead(call, head_id(b))) * call.head_dim
                          + col
                  /\ StoreAddr(O_lane_ptr(kargs, b, tid), kargs.stride_seq_o, 0, fv,
                               k \div 2, k % 2)
                        = RowBase(kargs, b, r) + col
                  /\ col < call.head_dim
                  /\ <<"V", 0, VScaleOf(kargs, b, tid, fv, k)>> \in sreads[b]
        /\ {x[3] : x \in {y \in sreads[b] : y[1] = "V"}}
              = {VScaleOf(kargs, b, x[1], x[2], x[3]) : x \in RORegs(kargs)}
        /\ ~call.fused => {y \in sreads[b] : y[1] = "V"} = {}
        /\ call.fused =>
              Cardinality({y \in sreads[b] : y[1] = "V"}) = call.head_dim

\* Two blocks of a fused call have run, one of a head of the second kv head.
WitC34 ==
    /\ call.fused
    /\ call.hq > call.hkv
    /\ Cardinality(ran) = 2
    /\ \E b \in ran : KvHead(call, head_id(b)) = 1 /\ O[b] # {}

\* Transfers on barrier b issued and not completed, completed, and failed.
InFlight(b) == {x \in flight : x.bar = b}

Landed(b) == {e \in landed : e[1] = b}

Broken(b) == {e \in broken : e[1] = b}

\* C35: the bytes declared on a barrier before a transfer are the bytes of
\* the box of its tensor map: 64 x head_dim for Q, 128 x head_dim for K and
\* head_dim x 128 for V; hence, as long as no transfer on the barrier has
\* failed, the bytes pending on it are those of the transfers in flight,
\* never negative, and the phases it has completed are the transfers that
\* have completed, one phase for one transfer.
ThmC35 ==
    \A b \in Bars :
        /\ Expect(b, pin.head_dim) = BoxBytes(b, pin.head_dim)
        /\ BoxBytes(b, pin.head_dim)
              = (IF b = "Q" THEN 64 * pin.head_dim
                 ELSE IF b = "K" THEN 128 * pin.head_dim
                 ELSE pin.head_dim * 128)
        /\ \A x \in InFlight(b) : x.bytes = Expect(b, pin.head_dim)
        /\ (bar[b].count > 0 /\ Broken(b) = {}) =>
              /\ bar[b].tx = Cardinality(InFlight(b)) * Expect(b, pin.head_dim)
              /\ bar[b].tx \in {0, Expect(b, pin.head_dim)}
              /\ bar[b].phase = Cardinality(Landed(b))
              /\ bar[b].pending = (IF InFlight(b) = {} THEN 1 ELSE 0)

\* The second key tile has arrived and completed the second phase of
\* barrier_K while the transfer of the second value tile is in flight,
\* head_dim = 64.
WitC35 ==
    /\ pin.head_dim = 64
    /\ broken = {}
    /\ bar["K"].phase = 2
    /\ bar["K"].tx = 0
    /\ bar["V"].phase = 1
    /\ bar["V"].tx = 64 * 128
    /\ Cardinality(InFlight("V")) = 1

\* C36: of every transfer a launched kernel issues, the key tile starts at
\* a position t * 128 < kv_len, the value tile [t * 128, t * 128 + 128) lies
\* within the trailing extent of value, the query tile starts at a row
\* bx * 64 < qo_len, and the head and batch coordinates are within the
\* tensor.
ThmC36 ==
    \A b \in ran : \A l \in loads[b] :
        /\ l[6] \in 0 .. (call.batch - 1)
        /\ l[1] = "Q" =>
              /\ l[3] = 0
              /\ l[4] = bx(b) * 64
              /\ l[4] < call.qo_len
              /\ l[5] \in 0 .. (call.hq - 1)
        /\ l[1] = "K" =>
              /\ l[3] = 0
              /\ l[4] = l[2] * 128
              /\ l[4] < call.kv_len
              /\ l[5] \in 0 .. (call.hkv - 1)
        /\ l[1] = "V" =>
              /\ l[4] = 0
              /\ l[3] = l[2] * 128
              /\ l[3] + 128 <= call.v_len
              /\ l[5] \in 0 .. (call.hkv - 1)

\* A block that is not the first of its head has loaded a second value tile
\* that ends with the padded extent of value, beyond kv_len.
WitC36 ==
    \E b \in ran : \E l \in loads[b] :
        /\ l[1] = "V"
        /\ l[2] >= 1
        /\ l[3] + 128 = call.v_len
        /\ l[3] + 128 > call.kv_len
        /\ bx(b) >= 1

(***************************************************************************)
(* The width of the writeback's addresses.  The wrapper reads the strides  *)
(* of output as int64_t and keeps them in int; the kernel receives them,   *)
(* qo_len and the grid as uint32_t and forms every product of its pointer  *)
(* expressions in uint32_t; the sums are pointer arithmetic, 64 bits wide. *)
(* A number n is held as <<hi, lo>> with n = hi * 2^16 + lo, so that       *)
(* offsets of 2^32 and more are written exactly.                           *)
(***************************************************************************)
\* Bits of uint32_t, the type of the kernel's stride and length parameters.
WordBits == 32

Half == 2 ^ (WordBits \div 2)

\* n as a pair, 0 <= n < 2^31.
Wide(n) == <<n \div Half, n % Half>>

WNorm(hi, lo) == <<hi + (lo \div Half), lo % Half>>

WAdd(x, y) == WNorm(x[1] + y[1], x[2] + y[2])

\* k * x for 0 <= k < 2^15.
WTimes(k, x) == WNorm(k * x[1], k * x[2])

\* The value a 32-bit integer keeps of x: x modulo 2^32.
u32(x) == <<x[1] % Half, x[2]>>

\* Buffers behind output: the view's own rows, or the leading rows of a
\* buffer of 2^23 or 2^25 rows.
BufferRows == {0, 8388608, 33554432}

\* Calls the wrapper accepts, with the buffer output is a view of.
AddrCalls ==
    {[batch |-> batch, hq |-> hq, qo_len |-> qo_len, head_dim |-> head_dim,
      layout |-> layout, return_lse |-> return_lse,
      o_rows |-> IF rows = 0 THEN qo_len ELSE rows] :
        batch \in 1 .. MaxBatch, hq \in {1, 2}, qo_len \in {1, CTA_Q, MaxQoLen},
        head_dim \in HeadDims, layout \in {0, 1}, return_lse \in {0, 1},
        rows \in BufferRows}

\* output.stride(0), the stride of the sequence axis and of the head axis,
\* as torch holds them (int64_t).
OutStrideBz(c) == WTimes(c.hq * c.head_dim, Wide(c.o_rows))

OutStrideSeq(c) == IF c.layout = 0 THEN Wide(c.hq * c.head_dim) ELSE Wide(c.head_dim)

OutStrideH(c) ==
    IF c.layout = 0 THEN Wide(c.head_dim) ELSE WTimes(c.head_dim, Wide(c.o_rows))

\* The arguments of the launch: each stride narrowed to int by the wrapper
\* and converted to the kernel's uint32_t parameter.
AddrArgs(c) ==
    [gridDim |-> GridDim(c), head_dim |-> c.head_dim, return_lse |-> c.return_lse # 0,
     qo_len |-> c.qo_len, stride_bz_o |-> u32(OutStrideBz(c)),
     stride_h_o |-> u32(OutStrideH(c)), stride_seq_o |-> u32(OutStrideSeq(c))]

\* O_lane_ptr - O as the kernel computes it.
O_lane_ptr32(ka, blk, tid) ==
    WAdd(WAdd(WAdd(u32(WTimes(batch_id(blk), ka.stride_bz_o)),
                   u32(WTimes(head_id(blk), ka.stride_h_o))),
              u32(WTimes(Q_idx_lane_base(blk, tid), ka.stride_seq_o))),
         Wide((lane_id(tid) % 4) * 2))

\* Offset of element e of float2 j of RO[fq][fv] as the kernel computes it.
StoreAddr32(ka, blk, tid, fq, fv, j, e) ==
    WAdd(WAdd(WAdd(O_lane_ptr32(ka, blk, tid), u32(WTimes(fq * 64, ka.stride_seq_o))),
              Wide(fv * 16 + (IF j \in {2, 3} THEN 8 ELSE 0) + e)),
         IF j \in {1, 3} THEN u32(WTimes(8, ka.stride_seq_o)) ELSE Wide(0))

\* lse_lane_ptr - Lse as the kernel computes it.
lse_lane_ptr32(ka, blk, tid) ==
    WAdd(WAdd(u32(WTimes(batch_id(blk), u32(WTimes(num_qo_heads(ka), Wide(ka.qo_len))))),
              u32(WTimes(head_id(blk), Wide(ka.qo_len)))),
         Wide(lse_idx(blk, tid)))

\* Where element <<row, col>> of head h of batch b lies in the buffer behind
\* output, and where row of head h of batch b lies in lse.
OutExact(c, b, h, row, col) ==
    WAdd(WAdd(WTimes(b, OutStrideBz(c)), WTimes(h, OutStrideH(c))),
         WAdd(WTimes(row, OutStrideSeq(c)), Wide(col)))

LseExact(c, b, h, row) == Wide((b * c.hq + h) * c.qo_len + row)

\* The threads and column tiles looked at.
AddrTids == {0, 37, NUM_THREADS - 1}

InitAddr ==
    /\ ain \in AddrCalls
    /\ apc = "host"
    /\ aargs = <<>>
    /\ awr = <<>>
    /\ GridOff
    /\ RowOff
    /\ PipeOff
    /\ HostOff
    /\ ThreadOff

\* The wrapper launches the kernel.
AddrLaunch ==
    /\ apc = "host"
    /\ apc' = "kernel"
    /\ aargs' = AddrArgs(ain)
    /\ UNCHANGED <<ain, awr, gvars, rvars, pvars, hvars, xvars>>

\* One store of the writeback: element e of float2 j of RO[0][fv] of thread
\* tid of block blk, when its row guard passes.  A behaviour follows one
\* store of the grid.
AddrStore(blk, tid, fv, j, e) ==
    /\ apc = "kernel"
    /\ awr = <<>>
    /\ StoreGuard(aargs, blk, tid, 0, j)
    /\ awr' = [kind |-> "O", blk |-> blk, tid |-> tid,
               got |-> StoreAddr32(aargs, blk, tid, 0, fv, j, e),
               want |-> OutExact(ain, batch_id(blk), head_id(blk),
                                 Q_idx_lane_base(blk, tid)
                                 + (IF j \in {1, 3} THEN 8 ELSE 0),
                                 fv * 16 + 2 * (lane_id(tid) % 4)
                                 + (IF j \in {2, 3} THEN 8 ELSE 0) + e)]
    /\ UNCHANGED <<ain, apc, aargs, gvars, rvars, pvars, hvars, xvars>>

\* The store of a row's log-sum-exp by thread tid of block blk.
AddrLse(blk, tid) ==
    /\ apc = "kernel"
    /\ awr = <<>>
    /\ aargs.return_lse
    /\ lse_idx(blk, tid) < aargs.qo_len
    /\ (lane_id(tid) % 4) < 2
    /\ awr' = [kind |-> "Lse", blk |-> blk, tid |-> tid,
               got |-> lse_lane_ptr32(aargs, blk, tid),
               want |-> LseExact(ain, batch_id(blk), head_id(blk),
                                 lse_idx(blk, tid))]
    /\ UNCHANGED <<ain, apc, aargs, gvars, rvars, pvars, hvars, xvars>>

NextAddr ==
    \/ AddrLaunch
    \/ \E blk \in Grid(AddrArgs(ain)), tid \in AddrTids,
          fv \in {0, (ain.head_dim \div 16) - 1}, j \in 0 .. 3, e \in {0, 1} :
            AddrStore(blk, tid, fv, j, e)
    \/ \E blk \in Grid(AddrArgs(ain)), tid \in AddrTids : AddrLse(blk, tid)

SpecAddr == InitAddr /\ [][NextAddr]_vars

\* C37: every store of the writeback lands where the exact offset says:
\* batch * stride_bz_o + head * stride_h_o + row * stride_seq_o + col for an
\* output element, batch * qo_len * num_qo_heads + head * qo_len + row for a
\* log-sum-exp.
CexC37 == awr # <<>> => awr.got = awr.want

\* C38: the launch of the plain entry point passes nullptr for V_scale and
\* either launch passes nullptr for Lse when return_lse is 0; a block reads
\* V_scale only in a kernel with fuse_v_scale, which was given the pointer
\* of value_scale, and writes Lse only in a kernel with return_lse, which
\* was given the pointer of lse; Q_scale, K_scale and O, which every block
\* uses, are never null.
ThmC38 ==
    hpc = "launched" =>
        /\ ~call.fused => kargs.V_scale = "nullptr" /\ ~kargs.fused
        /\ call.return_lse = 0 => kargs.Lse = "nullptr" /\ ~kargs.return_lse
        /\ \A b \in ran :
              /\ (\E x \in sreads[b] : x[1] = "V") =>
                    kargs.fused /\ kargs.V_scale = "value_scale"
              /\ Lse[b] # {} => kargs.return_lse /\ kargs.Lse = "lse"
              /\ (\E x \in sreads[b] : x[1] = "Q") => kargs.Q_scale = "query_scale"
              /\ (\E x \in sreads[b] : x[1] = "K") => kargs.K_scale = "key_scale"
              /\ O[b] # {} => kargs.O = "output"

\* A block of a kernel launched by the plain entry point without return_lse
\* has read its scales and stored its rows with both pointers null.
WitC38 ==
    /\ hpc = "launched"
    /\ ~call.fused
    /\ call.return_lse = 0
    /\ kargs.V_scale = "nullptr"
    /\ kargs.Lse = "nullptr"
    /\ \E b \in ran :
          /\ O[b] # {}
          /\ \E x \in sreads[b] : x[1] = "K"

\* The same call made through the other entry point.
Twin(h) == [h EXCEPT !.fused = ~h.fused]

\* The checks only the fused entry point makes: those of value_scale at its
\* head, and the shape of value_scale after the shapes of the other scales.
VsHead(h) ==
    /\ CHECK_CUDA(h.value_scale)
    /\ CHECK_CONTIGUOUS(h.value_scale)
    /\ CHECK_DTYPE(h.value_scale, "float32")
    /\ CHECK_DIMS(h.value_scale, 3)

VsShape(h) ==
    CHECK_SHAPE(h.value_scale, <<size(h.query, 0), size(h.key, HeadAxis(h)),
                                 size(h.query, 3)>>)

====
